---- MODULE Spec2Model ----
(***************************************************************************)
(* Real-time messaging and notification core of the AutoHarbour backend:   *)
(* src/src/sockets/messagingSockets.ts (socket handlers) and               *)
(* src/src/services/messagingService.ts (message and notification          *)
(* services).  Every asynchronous handler is a task that is suspended at   *)
(* each persistence call: the store executes the call in one step and the  *)
(* handler continues in a later step, so handlers interleave at exactly    *)
(* the places where the code awaits.                                       *)
(***************************************************************************)
EXTENDS Integers, Sequences, FiniteSets, Bags

VARIABLES status, handshake, authErr, userId, rooms, joins, presence,
          messages, notifications, settings, queue,
          tasks, log, io

vars == <<status, handshake, authErr, userId, rooms, joins, presence,
          messages, notifications, settings, queue, tasks, log, io>>

connVars == <<status, handshake, authErr, userId, rooms, joins, presence>>
storeVars == <<messages, notifications, settings, queue>>

(***************************************************************************)
(* Bounds of the model                                                     *)
(***************************************************************************)
\* connections (sockets) opened during a run
MaxConns == 2
\* join_conversation events a socket handles for a room while it is in it
MaxJoins == 2
\* handler invocations (socket events, REST calls) per run of Spec
MaxTasks == 1
\* notification service invocations per run of SpecNotif
MaxNotifTasks == 2
\* handler invocations in a run of the read-receipt specification
MaxReadTasks == 3
\* largest user id of the directory in the room-key specification
MaxKeyId == 11
\* handler invocations in a run of the conversation-room specification
MaxRoomTasks == 2
\* send_message events one socket has issued in the ordering specification
MaxQueued == 2

Conns == 1..MaxConns

(***************************************************************************)
(* The user directory and the listing table are read-only collaborators.   *)
(* Users 1 and 2 are verified, user 3 exists but is unverified, user 4     *)
(* does not exist.  Listing 7 exists, listing 9 does not.                  *)
(***************************************************************************)
Users == {1, 2, 3}
Verified == {1, 2}
UnknownUser == 4
Listings == {7}
UnknownListing == 9
\* marker of an optional numeric field that is undefined / null
Absent == -1

\* prisma.user.findUnique({ where: { id } }) : the row or null (Absent)
FindUser(id) == IF id \in Users THEN id ELSE Absent
\* prisma.listing.findUnique({ where: { id } })
FindListing(id) == IF id \in Listings THEN id ELSE Absent

(***************************************************************************)
(* A string the program computes on (a message content, a room name) is    *)
(* the sequence of its UTF-16 code units, so that String(n),               *)
(* Array.prototype.sort (which compares the string forms), join and trim   *)
(* are computed and not assumed.  Event names and error messages, which    *)
(* are only passed on, are strings.                                        *)
(***************************************************************************)
\* the code unit of the decimal digit d: "0" is 48
DigitChar(d) == 48 + d

\* String(n) of a non-negative integer
RECURSIVE NumStr(_)
NumStr(n) == IF n < 10 THEN <<DigitChar(n)>>
               ELSE NumStr(n \div 10) \o <<DigitChar(n % 10)>>

\* s < t in the order of the default sort comparator (code units, then length)
RECURSIVE StrLess(_, _)
StrLess(s, t) ==
  IF t = <<>> THEN FALSE
  ELSE IF s = <<>> THEN TRUE
  ELSE IF Head(s) # Head(t) THEN Head(s) < Head(t)
  ELSE StrLess(Tail(s), Tail(t))

\* [a, b].sort() : default comparator, stable
\* mutant: the pair is joined in the order given, the sort is left out
SortPair_NoSort(a, b) == <<a, b>>

SortPair(a, b) == IF StrLess(NumStr(b), NumStr(a)) THEN <<b, a>> ELSE <<a, b>>

\* [x, y].join("_")
\* "_" is 95
JoinPair(p) == NumStr(p[1]) \o <<95>> \o NumStr(p[2])

\* const roomName = [authSocket.userId!, otherUserId].sort().join("_")
ConversationRoom(a, b) == JoinPair(SortPair(a, b))

\* `user_${userId}` : "user_" is 117 115 101 114 95
UserRoom(u) == <<117, 115, 101, 114, 95>> \o NumStr(u)

\* the code units String.prototype.trim strips, WhiteSpace and
\* LineTerminator of ECMAScript: U+0009 tab, U+000A line feed, U+000B
\* vertical tab, U+000C form feed, U+000D carriage return, U+0020 space,
\* U+00A0, U+1680, U+2000..U+200A, U+2028, U+2029, U+202F, U+205F, U+3000
\* and U+FEFF
WhiteSpace ==
  {9, 10, 11, 12, 13, 32, 160, 5760, 8232, 8233, 8239, 8287, 12288, 65279}
    \cup (8192..8202)

IsSpace(ch) == ch \in WhiteSpace

RECURSIVE TrimLeft(_)
TrimLeft(s) == IF s # <<>> /\ IsSpace(Head(s)) THEN TrimLeft(Tail(s)) ELSE s

RECURSIVE TrimRight(_)
TrimRight(s) == IF s # <<>> /\ IsSpace(s[Len(s)])
                THEN TrimRight(SubSeq(s, 1, Len(s) - 1)) ELSE s

\* String.prototype.trim
Trim(s) == TrimRight(TrimLeft(s))

\* a content field of a payload: missing, or a string
NoContent == [present |-> FALSE, text |-> <<>>]

\* no NotificationSetting row (findUnique returns null)
NoSettings == [none |-> TRUE]
Str(s) == [present |-> TRUE, text |-> s]

\* mutant: the content is tested without trimming
BlankContent_NoTrim(c) == ~c.present \/ c.text = <<>>

\* !content || !content.trim()
BlankContent(c) == \/ ~c.present
                   \/ c.text = <<>>
                   \/ Trim(c.text) = <<>>

\* listingId || null
ListingOrNull(l) == IF l = Absent \/ l = 0 THEN Absent ELSE l

(***************************************************************************)
(* Handshake tokens: none, one that jwt.verify rejects, or a signed token  *)
(* whose payload carries a user id.                                        *)
(***************************************************************************)
NoToken == [kind |-> "none", uid |-> Absent]
BadToken == [kind |-> "bad", uid |-> Absent]
SignedToken(u) == [kind |-> "signed", uid |-> u]
\* the tokens of the two verified users
SockTokens == {SignedToken(1), SignedToken(2)}
Tokens == {NoToken, BadToken} \cup {SignedToken(u) : u \in Users \cup {UnknownUser}}

\* jwt.verify(token, JWT_SECRET) returns the payload (TRUE) or throws (FALSE)
JwtVerifies(tok) == tok.kind = "signed"

\* mutant: the verified flag is not looked at
UserAccepted_ExistsOnly(user) == user # Absent

\* if (!user || !user.isVerified) return next(new Error(...))
UserAccepted(user) == user # Absent /\ user \in Verified

NoErr == ""

\* what the middleware passes to next() once the directory lookup returned
\* (or threw): NoErr accepts the connection, a message refuses it
LookupOutcome(tok, dbThrows) ==
  IF dbThrows THEN "Invalid authentication token"
  ELSE IF ~UserAccepted(FindUser(tok.uid)) THEN "Invalid or unverified user"
  ELSE NoErr

(***************************************************************************)
(* Room registry of the socket server.  socket.join adds to the set of     *)
(* rooms of the socket, and a socket that closes leaves all its rooms;     *)
(* io.to(room).emit writes one packet to each socket the registry holds    *)
(* for the room; socket.to(room).emit leaves out the emitting socket;      *)
(* socket.emit reaches the socket itself while it is connected.            *)
(***************************************************************************)
\* the sockets the registry holds for the room
RoomMembers(room) == {c \in Conns : room \in rooms[c]}
Direct(c) == IF status[c] = "connected" THEN {c} ELSE {}

\* mutant: the registry keeps an entry per join call, so that a socket that
\* handled join_conversation n times for the room is written n packets
Broadcast_PerJoin(room, except) ==
  [c \in RoomMembers(room) \ except |->
     IF CopiesIn(room, joins[c]) > 1 THEN CopiesIn(room, joins[c]) ELSE 1]

\* to(room).emit: the bag of packets written, one to each socket of the
\* room that is not excepted
Broadcast(room, except) == SetToBag(RoomMembers(room) \ except)

\* the two io.on("connection") listeners both join the personal room
RoomsOnConnection(u) == ({} \cup {UserRoom(u)}) \cup {UserRoom(u)}

NoRoom == <<>>
NoPayload == [none |-> TRUE]

\* one emission: the handler that made it, the event, the addressed room or
\* socket, the packets written (a bag of connections), the connections it
\* was delivered to, and the payload
Delivered(t, ev, room, to, packets, payload) ==
  [task |-> t, ev |-> ev, room |-> room, to |-> to,
   rcpt |-> BagToSet(packets), packets |-> packets, payload |-> payload]

Emission(t, ev, room, to, payload) ==
  Delivered(t, ev, room, to,
            IF to # 0 THEN SetToBag(Direct(to)) ELSE Broadcast(room, {}),
            payload)

\* mutant: io.emit in place of socket.emit, every connected socket receives
ToSocket_Broadcast(t, ev, c, payload) ==
  Delivered(t, ev, NoRoom, 0, SetToBag({d \in Conns : status[d] = "connected"}),
            payload)

ToRoom(t, ev, room, payload) == Emission(t, ev, room, 0, payload)
ToSocket(t, ev, c, payload) == Emission(t, ev, NoRoom, c, payload)

(***************************************************************************)
(* Handler invocations.  pc names the persistence call the handler is      *)
(* suspended on; out is the result once the handler has finished.          *)
(***************************************************************************)
Task(kind, c, u, pc, content, receiverId, listingId, out) ==
  [kind |-> kind, conn |-> c, user |-> u, pc |-> pc, content |-> content,
   receiverId |-> receiverId, listingId |-> listingId,
   nid |-> Absent, ntype |-> "", fromUserId |-> Absent, messageId |-> Absent,
   res |-> Absent, out |-> out, failedAt |-> "", seen |-> Absent]

\* an invocation of mark_messages_read (or of markMessagesAsRead, c = 0).
\* seen records how many Message rows were stored when its bulk update ran.
MarkTask(kind, c, u, fromUserId) ==
  [Task(kind, c, u, "updateMany", NoContent, Absent, Absent, "") EXCEPT
     !.fromUserId = fromUserId]

\* an invocation of deleteMessage(messageId, userId)
DeleteTask(messageId, u) ==
  [Task("deleteMessage", 0, u, "findMessage", NoContent, Absent, Absent, "") EXCEPT
     !.messageId = messageId]

\* an invocation of one of the notification services
NotifTask(kind, c, u, pc, nid, ntype) ==
  [Task(kind, c, u, pc, NoContent, Absent, Absent, "") EXCEPT
     !.nid = nid, !.ntype = ntype]

TaskIds == 1..Len(tasks)
Running(t) == tasks[t].pc # "done"
Finish(t, out) == [tasks EXCEPT ![t].pc = "done", ![t].out = out]
\* the persistence call the handler was suspended on threw
FinishFailed(t, out) ==
  [tasks EXCEPT ![t].pc = "done", ![t].out = out, ![t].failedAt = tasks[t].pc]

\* const io = initializeMessageSockets(server), before server.listen: the
\* server has no socket yet and setupNotificationSocket has handed the
\* socket server to the notification services (io is TRUE for a non-null
\* handle)
Init ==
  /\ status = [c \in Conns |-> "idle"]
  /\ handshake = [c \in Conns |-> NoToken]
  /\ authErr = [c \in Conns |-> NoErr]
  /\ userId = [c \in Conns |-> Absent]
  /\ rooms = [c \in Conns |-> {}]
  /\ joins = [c \in Conns |-> EmptyBag]
  /\ presence = [c \in Conns |-> [online |-> 0, offline |-> 0]]
  /\ messages = <<>>
  /\ notifications = <<>>
  /\ settings = [u \in Users |-> NoSettings]
  /\ queue = <<>>
  /\ tasks = <<>>
  /\ log = <<>>
  /\ io = TRUE

\* messagingService.ts loaded on its own: let io: any = null, no socket
\* server and no socket
InitModule ==
  /\ status = [c \in Conns |-> "idle"]
  /\ handshake = [c \in Conns |-> NoToken]
  /\ authErr = [c \in Conns |-> NoErr]
  /\ userId = [c \in Conns |-> Absent]
  /\ rooms = [c \in Conns |-> {}]
  /\ joins = [c \in Conns |-> EmptyBag]
  /\ presence = [c \in Conns |-> [online |-> 0, offline |-> 0]]
  /\ messages = <<>>
  /\ notifications = <<>>
  /\ settings = [u \in Users |-> NoSettings]
  /\ queue = <<>>
  /\ tasks = <<>>
  /\ log = <<>>
  /\ io = FALSE

\* setSocketInstance(SocketInstance): io = SocketInstance
SetSocketInstance ==
  /\ io' = TRUE
  /\ UNCHANGED <<connVars, storeVars, tasks, log>>

(***************************************************************************)
(* io.use authentication middleware and the connection listeners           *)
(***************************************************************************)
\* a client opens a socket: the synchronous part of the middleware
Connect(c, tok) ==
  /\ status[c] = "idle"
  /\ handshake' = [handshake EXCEPT ![c] = tok]
  /\ IF tok.kind = "none"
       THEN /\ status' = [status EXCEPT ![c] = "refused"]
            /\ authErr' = [authErr EXCEPT ![c] = "Authentication token required"]
     ELSE IF ~JwtVerifies(tok)
       THEN /\ status' = [status EXCEPT ![c] = "refused"]
            /\ authErr' = [authErr EXCEPT ![c] = "Invalid authentication token"]
     ELSE /\ status' = [status EXCEPT ![c] = "authenticating"]
          /\ authErr' = authErr
  /\ UNCHANGED <<userId, rooms, joins, presence, storeVars, tasks, log, io>>

\* mutant: the connection listeners run whatever the middleware decided
AuthLookup_JoinsBeforeCheck(c, dbThrows) ==
  /\ status[c] = "authenticating"
  /\ LET err == LookupOutcome(handshake[c], dbThrows) IN
       /\ status' = [status EXCEPT ![c] = IF err # NoErr THEN "refused" ELSE "connected"]
       /\ authErr' = [authErr EXCEPT ![c] = err]
       /\ userId' = [userId EXCEPT ![c] = IF err # NoErr THEN Absent ELSE handshake[c].uid]
       /\ rooms' = [rooms EXCEPT ![c] = RoomsOnConnection(handshake[c].uid)]
       /\ presence' = [presence EXCEPT ![c].online = @ + 1]
  /\ UNCHANGED <<handshake, joins, storeVars, tasks, log, io>>

\* prisma.user.findUnique returned (or threw); on success the socket is
\* tagged and both connection listeners run
AuthLookup(c, dbThrows) ==
  /\ status[c] = "authenticating"
  /\ LET err == LookupOutcome(handshake[c], dbThrows) IN
       IF err # NoErr
         THEN /\ status' = [status EXCEPT ![c] = "refused"]
              /\ authErr' = [authErr EXCEPT ![c] = err]
              /\ UNCHANGED <<userId, rooms, presence>>
         ELSE /\ status' = [status EXCEPT ![c] = "connected"]
              /\ userId' = [userId EXCEPT ![c] = handshake[c].uid]
              /\ rooms' = [rooms EXCEPT ![c] = RoomsOnConnection(handshake[c].uid)]
              /\ presence' = [presence EXCEPT ![c].online = @ + 1]
              /\ authErr' = authErr
  /\ UNCHANGED <<handshake, joins, storeVars, tasks, log, io>>

\* mutant: the personal room is emptied when one socket of the user closes
\* (io.in(`user_${userId}`).socketsLeave in the disconnect listener)
Disconnect_EmptiesPersonalRoom(c) ==
  /\ status[c] = "connected"
  /\ status' = [status EXCEPT ![c] = "disconnected"]
  /\ rooms' = [d \in Conns |-> IF d = c THEN {} ELSE rooms[d] \ {UserRoom(userId[c])}]
  /\ joins' = [joins EXCEPT ![c] = EmptyBag]
  /\ presence' = [presence EXCEPT ![c].offline = @ + 1]
  /\ UNCHANGED <<handshake, authErr, userId, storeVars, tasks, log, io>>

\* mutant: the notification listener updates the presence as well
Disconnect_BothListenersUpdate(c) ==
  /\ status[c] = "connected"
  /\ status' = [status EXCEPT ![c] = "disconnected"]
  /\ rooms' = [rooms EXCEPT ![c] = {}]
  /\ joins' = [joins EXCEPT ![c] = EmptyBag]
  /\ presence' = [presence EXCEPT ![c].offline = @ + 2]
  /\ UNCHANGED <<handshake, authErr, userId, storeVars, tasks, log, io>>

\* the socket closes (client close, network drop, server shutdown): it
\* leaves every room and both "disconnect" listeners run
Disconnect(c) ==
  /\ status[c] = "connected"
  /\ status' = [status EXCEPT ![c] = "disconnected"]
  /\ rooms' = [rooms EXCEPT ![c] = {}]
  /\ joins' = [joins EXCEPT ![c] = EmptyBag]
  /\ presence' = [presence EXCEPT ![c].offline = @ + 1]
  /\ UNCHANGED <<handshake, authErr, userId, storeVars, tasks, log, io>>

\* authSocket.join(roomName) with roomName = [userId, otherUserId].sort()
\* .join("_"): the rooms of the socket (a set) after the call
JoinedRooms(R, u, otherUserId) == R \cup {ConversationRoom(u, otherUserId)}

\* history: the bag J of the join_conversation events a socket handled for
\* the rooms it is in, after one more for room r and after it left room r
JoinCounted(J, r) == J (+) SetToBag({r})
JoinForgotten(J, r) == [x \in DOMAIN J \ {r} |-> J[x]]

\* mutant: the first id of the pair is taken from the event payload instead
\* of the authenticated socket
JoinConversation_TrustsClient(c, otherUserId) ==
  /\ status[c] = "connected"
  /\ \E claimed \in Users :
       /\ CopiesIn(ConversationRoom(claimed, otherUserId), joins[c]) < MaxJoins
       /\ rooms' = [rooms EXCEPT ![c] = JoinedRooms(@, claimed, otherUserId)]
       /\ joins' = [joins EXCEPT
            ![c] = JoinCounted(@, ConversationRoom(claimed, otherUserId))]
  /\ UNCHANGED <<status, handshake, authErr, userId, presence, storeVars, tasks, log, io>>

\* authSocket.on("join_conversation"): the socket joins the room of the
\* pair, whether it is in it already or not
JoinConversation(c, otherUserId) ==
  /\ status[c] = "connected"
  /\ CopiesIn(ConversationRoom(userId[c], otherUserId), joins[c]) < MaxJoins
  /\ rooms' = [rooms EXCEPT ![c] = JoinedRooms(@, userId[c], otherUserId)]
  /\ joins' = [joins EXCEPT
       ![c] = JoinCounted(@, ConversationRoom(userId[c], otherUserId))]
  /\ UNCHANGED <<status, handshake, authErr, userId, presence, storeVars, tasks, log, io>>

\* mutant: the socket leaves every room it is in, the personal room included
LeaveConversation_LeavesAll(c, otherUserId) ==
  /\ status[c] = "connected"
  /\ rooms' = [rooms EXCEPT ![c] = {}]
  /\ joins' = [joins EXCEPT ![c] = EmptyBag]
  /\ UNCHANGED <<status, handshake, authErr, userId, presence, storeVars, tasks, log, io>>

\* authSocket.on("leave_conversation")
LeaveConversation(c, otherUserId) ==
  /\ status[c] = "connected"
  /\ rooms' = [rooms EXCEPT ![c] = @ \ {ConversationRoom(userId[c], otherUserId)}]
  /\ joins' = [joins EXCEPT
       ![c] = JoinForgotten(@, ConversationRoom(userId[c], otherUserId))]
  /\ UNCHANGED <<status, handshake, authErr, userId, presence, storeVars, tasks, log, io>>

(***************************************************************************)
(* Message rows and the send_message handler                               *)
(***************************************************************************)
\* the invocations that create a Message row: the socket handler and the
\* two sendMessage functions of the service file
SendKinds == {"send_message", "sendMessage", "sendMessage (listing)"}

\* the ids the Message table has given out: those of the stored rows, of the
\* rows the invocations created and of the rows deleteMessage removed
UsedMessageIds ==
  {messages[i].id : i \in 1..Len(messages)}
    \cup {tasks[t].res : t \in {x \in TaskIds : /\ tasks[x].kind \in SendKinds
                                                /\ tasks[x].res # Absent}}
    \cup {tasks[t].messageId :
            t \in {x \in TaskIds : tasks[x].out = "Message deleted successfully"}}

\* the id column is an autoincrement key: an id is never given out twice
NextMessageId ==
  IF UsedMessageIds = {} THEN 1
  ELSE 1 + (CHOOSE m \in UsedMessageIds : \A k \in UsedMessageIds : k <= m)

\* prisma.message.create({ data: { content: content.trim(), senderId,
\*   receiverId, listingId: listingId || null } }) : isRead defaults to false
NewMessageRow(t) ==
  [id |-> NextMessageId,
   content |-> Trim(tasks[t].content.text),
   senderId |-> tasks[t].user,
   receiverId |-> tasks[t].receiverId,
   listingId |-> ListingOrNull(tasks[t].listingId),
   isRead |-> FALSE,
   task |-> t]

\* the row prisma.message.create returned to invocation t
CreatedRow(t) == [NewMessageRow(t) EXCEPT !.id = tasks[t].res]

\* messageResponse built from the created row
MessageResponse(m) ==
  [id |-> m.id, content |-> m.content, isRead |-> m.isRead,
   listingId |-> m.listingId, sender |-> m.senderId, receiver |-> m.receiverId]

\* payload of message_notification
MessageNotification(t) ==
  [senderId |-> tasks[t].user,
   content |-> Trim(tasks[t].content.text),
   listingId |-> ListingOrNull(tasks[t].listingId)]

ErrorPayload(msg) == [message |-> msg]

\* mutant: message_notification goes to the conversation room as well
SentEmissions_NotifiesRoomToo(t, m) ==
  << ToRoom(t, "new_message",
            ConversationRoom(tasks[t].user, tasks[t].receiverId),
            MessageResponse(m)),
     ToRoom(t, "message_notification", UserRoom(tasks[t].receiverId),
            MessageNotification(t)),
     ToRoom(t, "message_notification",
            ConversationRoom(tasks[t].user, tasks[t].receiverId),
            MessageNotification(t)),
     ToSocket(t, "message_sent", tasks[t].conn, MessageResponse(m)) >>

\* mutant: the acknowledgement is emitted before the broadcasts
SentEmissions_AckFirst(t, m) ==
  << ToSocket(t, "message_sent", tasks[t].conn, MessageResponse(m)),
     ToRoom(t, "new_message",
            ConversationRoom(tasks[t].user, tasks[t].receiverId),
            MessageResponse(m)),
     ToRoom(t, "message_notification", UserRoom(tasks[t].receiverId),
            MessageNotification(t)) >>

\* the three emissions that follow a successful create, in program order
SentEmissions(t, m) ==
  << ToRoom(t, "new_message",
            ConversationRoom(tasks[t].user, tasks[t].receiverId),
            MessageResponse(m)),
     ToRoom(t, "message_notification", UserRoom(tasks[t].receiverId),
            MessageNotification(t)),
     ToSocket(t, "message_sent", tasks[t].conn, MessageResponse(m)) >>

\* mutant: the sender = receiver test is missing
ReceiverCheck_NoSelfCheck(sender, receiverId) ==
  IF FindUser(receiverId) = Absent THEN "Receiver not found" ELSE NoErr

\* the validation that follows the receiver lookup: NoErr lets the handler
\* go on to the create call
ReceiverCheck(sender, receiverId) ==
  IF FindUser(receiverId) = Absent THEN "Receiver not found"
  ELSE IF sender = receiverId THEN "Cannot send message to yourself"
  ELSE NoErr

\* "send_message" arrives on a connected socket: destructuring and the
\* content check run synchronously, then the handler awaits the lookup
SendMessage(c, content, receiverId, listingId) ==
  /\ status[c] = "connected"
  /\ Len(tasks) < MaxTasks
  /\ LET t == Len(tasks) + 1
         new(pc, out) == Task("send_message", c, userId[c], pc, content,
                              receiverId, listingId, out)
     IN IF BlankContent(content)
          THEN /\ tasks' = Append(tasks, new("done", "Message content is required"))
               /\ log' = Append(log, ToSocket(t, "message_error", c,
                                    ErrorPayload("Message content is required")))
          ELSE /\ tasks' = Append(tasks, new("findReceiver", ""))
               /\ log' = log
  /\ UNCHANGED <<connVars, storeVars, io>>

\* prisma.user.findUnique for the receiver returned or threw
SendReceiverLookup(t, dbThrows) ==
  /\ t \in TaskIds
  /\ tasks[t].kind = "send_message"
  /\ tasks[t].pc = "findReceiver"
  /\ LET err == ReceiverCheck(tasks[t].user, tasks[t].receiverId) IN
       IF dbThrows
         THEN /\ tasks' = FinishFailed(t, "Failed to send message")
              /\ log' = Append(log, ToSocket(t, "message_error", tasks[t].conn,
                                   ErrorPayload("Failed to send message")))
       ELSE IF err # NoErr
         THEN /\ tasks' = Finish(t, err)
              /\ log' = Append(log, ToSocket(t, "message_error", tasks[t].conn,
                                   ErrorPayload(err)))
       ELSE /\ tasks' = [tasks EXCEPT ![t].pc = "create"]
            /\ log' = log
  /\ UNCHANGED <<connVars, storeVars, io>>

\* the store executes prisma.message.create, or the call fails
StoreCreateMessage(t, ok) ==
  /\ t \in TaskIds
  /\ tasks[t].kind \in SendKinds
  /\ tasks[t].pc = "create"
  /\ IF ok
       THEN /\ messages' = Append(messages, NewMessageRow(t))
            /\ tasks' = [tasks EXCEPT ![t].pc = "created",
                                      ![t].res = NextMessageId]
       ELSE /\ messages' = messages
            /\ tasks' = [tasks EXCEPT ![t].pc = "createFailed",
                                      ![t].failedAt = "create"]
  /\ UNCHANGED <<connVars, notifications, settings, queue, log, io>>

\* mutant: the receiver is notified although the create call failed
SendResume_NotifyOnFailure(t) ==
  /\ t \in TaskIds
  /\ tasks[t].kind = "send_message"
  /\ \/ /\ tasks[t].pc = "created"
        /\ log' = log \o SentEmissions(t, CreatedRow(t))
        /\ tasks' = Finish(t, "sent")
     \/ /\ tasks[t].pc = "createFailed"
        /\ log' = log \o
             << ToRoom(t, "message_notification", UserRoom(tasks[t].receiverId),
                       MessageNotification(t)),
                ToSocket(t, "message_error", tasks[t].conn,
                         ErrorPayload("Failed to send message")) >>
        /\ tasks' = Finish(t, "Failed to send message")
  /\ UNCHANGED <<connVars, storeVars, io>>

\* mutant: the handler gives up after the create when its socket has closed
SendResume_SkipsWhenGone(t) ==
  /\ t \in TaskIds
  /\ tasks[t].kind = "send_message"
  /\ \/ /\ tasks[t].pc = "created"
        /\ log' = IF status[tasks[t].conn] = "connected"
                    THEN log \o SentEmissions(t, CreatedRow(t))
                    ELSE log
        /\ tasks' = Finish(t, "sent")
     \/ /\ tasks[t].pc = "createFailed"
        /\ log' = Append(log, ToSocket(t, "message_error", tasks[t].conn,
                             ErrorPayload("Failed to send message")))
        /\ tasks' = Finish(t, "Failed to send message")
  /\ UNCHANGED <<connVars, storeVars, io>>

\* the handler resumes after the create call: fan-out, or the catch block
SendResume(t) ==
  /\ t \in TaskIds
  /\ tasks[t].kind = "send_message"
  /\ \/ /\ tasks[t].pc = "created"
        /\ log' = log \o SentEmissions(t, CreatedRow(t))
        /\ tasks' = Finish(t, "sent")
     \/ /\ tasks[t].pc = "createFailed"
        /\ log' = Append(log, ToSocket(t, "message_error", tasks[t].conn,
                             ErrorPayload("Failed to send message")))
        /\ tasks' = Finish(t, "Failed to send message")
  /\ UNCHANGED <<connVars, storeVars, io>>

(***************************************************************************)
(* sendMessage of the message service (REST path): same checks plus the    *)
(* listing lookup; it throws instead of emitting                           *)
(***************************************************************************)
\* if (messageData.listingId) : the lookup runs for a truthy listingId
ListingSupplied(l) == l # Absent /\ l # 0

RestSendMessage(sender, content, receiverId, listingId) ==
  /\ Len(tasks) < MaxTasks
  /\ LET new(pc, out) == Task("sendMessage", 0, sender, pc, content,
                              receiverId, listingId, out)
     IN IF BlankContent(content)
          THEN tasks' = Append(tasks, new("done", "Message content is required"))
          ELSE tasks' = Append(tasks, new("findReceiver", ""))
  /\ UNCHANGED <<connVars, storeVars, log, io>>

RestReceiverLookup(t, dbThrows) ==
  /\ t \in TaskIds
  /\ tasks[t].kind = "sendMessage"
  /\ tasks[t].pc = "findReceiver"
  /\ LET err == ReceiverCheck(tasks[t].user, tasks[t].receiverId) IN
       IF dbThrows THEN tasks' = FinishFailed(t, "store error")
       ELSE IF err # NoErr THEN tasks' = Finish(t, err)
       ELSE IF ListingSupplied(tasks[t].listingId)
         THEN tasks' = [tasks EXCEPT ![t].pc = "findListing"]
       ELSE tasks' = [tasks EXCEPT ![t].pc = "create"]
  /\ UNCHANGED <<connVars, storeVars, log, io>>

RestListingLookup(t, dbThrows) ==
  /\ t \in TaskIds
  /\ tasks[t].kind = "sendMessage"
  /\ tasks[t].pc = "findListing"
  /\ IF dbThrows THEN tasks' = FinishFailed(t, "store error")
     ELSE IF FindListing(tasks[t].listingId) = Absent
       THEN tasks' = Finish(t, "Listing not found")
     ELSE tasks' = [tasks EXCEPT ![t].pc = "create"]
  /\ UNCHANGED <<connVars, storeVars, log, io>>

RestSendResume(t) ==
  /\ t \in TaskIds
  /\ tasks[t].kind = "sendMessage"
  /\ \/ /\ tasks[t].pc = "created"
        /\ tasks' = Finish(t, "returned")
     \/ /\ tasks[t].pc = "createFailed"
        /\ tasks' = Finish(t, "store error")
  /\ UNCHANGED <<connVars, storeVars, log, io>>

(***************************************************************************)
(* The second sendMessage the service file exports (lines 270-325): the    *)
(* same checks, but prisma.message.create and the return stand inside      *)
(* if (messageData.listingId).  Called without a listing id it resolves    *)
(* with undefined once the receiver is checked, and stores nothing.        *)
(***************************************************************************)
ListingSendMessage(sender, content, receiverId, listingId) ==
  /\ Len(tasks) < MaxTasks
  /\ LET new(pc, out) == Task("sendMessage (listing)", 0, sender, pc, content,
                              receiverId, listingId, out)
     IN IF BlankContent(content)
          THEN tasks' = Append(tasks, new("done", "Message content is required"))
          ELSE tasks' = Append(tasks, new("findReceiver", ""))
  /\ UNCHANGED <<connVars, storeVars, log, io>>

ListingReceiverLookup(t, dbThrows) ==
  /\ t \in TaskIds
  /\ tasks[t].kind = "sendMessage (listing)"
  /\ tasks[t].pc = "findReceiver"
  /\ LET err == ReceiverCheck(tasks[t].user, tasks[t].receiverId) IN
       IF dbThrows THEN tasks' = FinishFailed(t, "store error")
       ELSE IF err # NoErr THEN tasks' = Finish(t, err)
       ELSE IF ListingSupplied(tasks[t].listingId)
         THEN tasks' = [tasks EXCEPT ![t].pc = "findListing"]
       ELSE tasks' = Finish(t, "undefined")
  /\ UNCHANGED <<connVars, storeVars, log, io>>

ListingSendLookup(t, dbThrows) ==
  /\ t \in TaskIds
  /\ tasks[t].kind = "sendMessage (listing)"
  /\ tasks[t].pc = "findListing"
  /\ IF dbThrows THEN tasks' = FinishFailed(t, "store error")
     ELSE IF FindListing(tasks[t].listingId) = Absent
       THEN tasks' = Finish(t, "Listing not found")
     ELSE tasks' = [tasks EXCEPT ![t].pc = "create"]
  /\ UNCHANGED <<connVars, storeVars, log, io>>

ListingSendResume(t) ==
  /\ t \in TaskIds
  /\ tasks[t].kind = "sendMessage (listing)"
  /\ \/ /\ tasks[t].pc = "created"
        /\ tasks' = Finish(t, "returned")
     \/ /\ tasks[t].pc = "createFailed"
        /\ tasks' = Finish(t, "store error")
  /\ UNCHANGED <<connVars, storeVars, log, io>>

(***************************************************************************)
(* deleteMessage of the message service: the sender removes a message      *)
(***************************************************************************)
\* prisma.message.findUnique({ where: { id } }): the position of the row in
\* the table, 0 for null
FindMessage(id) ==
  IF \E i \in 1..Len(messages) : messages[i].id = id
    THEN CHOOSE i \in 1..Len(messages) : messages[i].id = id
    ELSE 0

\* deleteMessage(messageId, userId) is called: it awaits message.findUnique
DeleteMessage(messageId, u) ==
  /\ Len(tasks) < MaxReadTasks
  /\ tasks' = Append(tasks, DeleteTask(messageId, u))
  /\ UNCHANGED <<connVars, storeVars, log, io>>

\* findUnique returns (or throws): no row and a row of another sender are
\* errors, otherwise the service awaits message.delete
DeleteFind(t, dbThrows) ==
  /\ t \in TaskIds
  /\ tasks[t].kind = "deleteMessage"
  /\ tasks[t].pc = "findMessage"
  /\ LET i == FindMessage(tasks[t].messageId) IN
       IF dbThrows THEN tasks' = FinishFailed(t, "threw")
       ELSE IF i = 0 THEN tasks' = Finish(t, "Message not found")
       ELSE IF messages[i].senderId # tasks[t].user
         THEN tasks' = Finish(t, "You can only delete your own messages")
       ELSE tasks' = [tasks EXCEPT ![t].pc = "delete"]
  /\ UNCHANGED <<connVars, storeVars, log, io>>

\* the store executes prisma.message.delete({ where: { id } }), which fails
\* when the row is gone; the service then returns its confirmation
StoreDeleteMessage(t, ok) ==
  /\ t \in TaskIds
  /\ tasks[t].kind = "deleteMessage"
  /\ tasks[t].pc = "delete"
  /\ IF ok /\ FindMessage(tasks[t].messageId) # 0
       THEN /\ messages' = SelectSeq(messages, LAMBDA m : m.id # tasks[t].messageId)
            /\ tasks' = Finish(t, "Message deleted successfully")
       ELSE /\ messages' = messages
            /\ tasks' = FinishFailed(t, "threw")
  /\ UNCHANGED <<connVars, notifications, settings, queue, log, io>>

(***************************************************************************)
(* mark_messages_read handler and markMessagesAsRead of the message        *)
(* service: one bulk update, then the receipts (socket) or the return      *)
(***************************************************************************)
\* mutant: the filter leaves out isRead: false
UnreadFrom_AnyReadState(fromUserId, u) ==
  {i \in 1..Len(messages) :
     /\ messages[i].senderId = fromUserId
     /\ messages[i].receiverId = u}

\* mutant: the filter matches the conversation in both directions
UnreadFrom_BothDirections(fromUserId, u) ==
  {i \in 1..Len(messages) :
     /\ {messages[i].senderId, messages[i].receiverId} = {fromUserId, u}
     /\ ~messages[i].isRead}

\* where: { senderId: fromUserId, receiverId: userId, isRead: false }
UnreadFrom(fromUserId, u) ==
  {i \in 1..Len(messages) :
     /\ messages[i].senderId = fromUserId
     /\ messages[i].receiverId = u
     /\ ~messages[i].isRead}

\* authSocket.on("mark_messages_read"): the handler awaits updateMany
MarkMessagesRead(c, fromUserId) ==
  /\ status[c] = "connected"
  /\ Len(tasks) < MaxReadTasks
  /\ tasks' = Append(tasks, MarkTask("mark_messages_read", c, userId[c], fromUserId))
  /\ UNCHANGED <<connVars, storeVars, log, io>>

\* markMessagesAsRead(userId, fromUserId) of the service is called
RestMarkMessagesAsRead(u, fromUserId) ==
  /\ Len(tasks) < MaxReadTasks
  /\ tasks' = Append(tasks, MarkTask("markMessagesAsRead", 0, u, fromUserId))
  /\ UNCHANGED <<connVars, storeVars, log, io>>

\* the store executes prisma.message.updateMany({ where, data: { isRead:
\* true } }) and reports the number of rows changed, or the call fails
StoreMarkMessages(t, ok) ==
  /\ t \in TaskIds
  /\ tasks[t].kind \in {"mark_messages_read", "markMessagesAsRead"}
  /\ tasks[t].pc = "updateMany"
  /\ IF ok
       THEN /\ messages' =
                 [i \in 1..Len(messages) |->
                    IF i \in UnreadFrom(tasks[t].fromUserId, tasks[t].user)
                      THEN [messages[i] EXCEPT !.isRead = TRUE]
                      ELSE messages[i]]
            /\ tasks' = [tasks EXCEPT
                 ![t].pc = "updated",
                 ![t].res = Cardinality(UnreadFrom(tasks[t].fromUserId, tasks[t].user)),
                 ![t].seen = Len(messages)]
       ELSE /\ messages' = messages
            /\ tasks' = [tasks EXCEPT ![t].pc = "updateFailed",
                                      ![t].failedAt = "updateMany"]
  /\ UNCHANGED <<connVars, notifications, settings, queue, log, io>>

\* io.to(`user_${fromUserId}`).emit("messages_read", { readBy, count })
MessagesRead(t) == [readBy |-> tasks[t].user, count |-> tasks[t].res]

\* mutant: the catch block sends the receipts as well
ReadReceipts_AlsoOnFailure(t) ==
  IF tasks[t].pc \in {"updated", "updateFailed"}
    THEN <<ToRoom(t, "messages_read", UserRoom(tasks[t].fromUserId), MessagesRead(t)),
           ToSocket(t, "messages_marked_read", tasks[t].conn, [count |-> tasks[t].res])>>
    ELSE <<>>

\* what the handler emits when it resumes: the two receipts after the
\* update, or "error" from the catch block
ReadReceipts(t) ==
  IF tasks[t].pc = "updated"
    THEN <<ToRoom(t, "messages_read", UserRoom(tasks[t].fromUserId), MessagesRead(t)),
           ToSocket(t, "messages_marked_read", tasks[t].conn, [count |-> tasks[t].res])>>
    ELSE <<ToSocket(t, "error", tasks[t].conn,
                    ErrorPayload("Failed to mark messages as read"))>>

\* the mark_messages_read handler resumes after updateMany
MarkReadResume(t) ==
  /\ t \in TaskIds
  /\ tasks[t].kind = "mark_messages_read"
  /\ tasks[t].pc \in {"updated", "updateFailed"}
  /\ log' = log \o ReadReceipts(t)
  /\ tasks' = Finish(t, IF tasks[t].pc = "updated" THEN "marked"
                        ELSE "Failed to mark messages as read")
  /\ UNCHANGED <<connVars, storeVars, io>>

\* markMessagesAsRead resumes: it returns updatedCount or rethrows
RestMarkResume(t) ==
  /\ t \in TaskIds
  /\ tasks[t].kind = "markMessagesAsRead"
  /\ tasks[t].pc \in {"updated", "updateFailed"}
  /\ tasks' = Finish(t, IF tasks[t].pc = "updated" THEN "marked" ELSE "store error")
  /\ UNCHANGED <<connVars, storeVars, log, io>>

(***************************************************************************)
(* Inputs                                                                  *)
(***************************************************************************)
\* no content, "", " \v" (blank), "\u00a0a\n" (trimmed to "a")
Contents == {NoContent, Str(<<>>), Str(<<32, 11>>), Str(<<160, 97, 10>>)}
\* "\r\ufeff" (blank), "a\u3000" (trimmed to "a")
RestContents == {Str(<<13, 65279>>), Str(<<97, 12288>>)}
RestSenders == {1}
ReceiverIds == {1, 2, UnknownUser}
ListingIds == {Absent, 7, UnknownListing}
PeerIds == {1, 2}

NextMsg ==
  \/ \E c \in Conns, tok \in Tokens : Connect(c, tok)
  \/ \E c \in Conns, dbThrows \in BOOLEAN : AuthLookup(c, dbThrows)
  \/ \E c \in Conns : Disconnect(c)
  \/ \E c \in Conns, o \in PeerIds : JoinConversation(c, o)
  \/ \E c \in Conns, o \in PeerIds : LeaveConversation(c, o)
  \/ \E c \in Conns, content \in Contents, r \in ReceiverIds, l \in ListingIds :
       SendMessage(c, content, r, l)
  \/ \E t \in 1..MaxTasks, dbThrows \in BOOLEAN : SendReceiverLookup(t, dbThrows)
  \/ \E t \in 1..MaxTasks, ok \in BOOLEAN : StoreCreateMessage(t, ok)
  \/ \E t \in 1..MaxTasks : SendResume(t)
  \/ \E u \in RestSenders, content \in RestContents, r \in ReceiverIds, l \in ListingIds :
       RestSendMessage(u, content, r, l)
  \/ \E t \in 1..MaxTasks, dbThrows \in BOOLEAN : RestReceiverLookup(t, dbThrows)
  \/ \E t \in 1..MaxTasks, dbThrows \in BOOLEAN : RestListingLookup(t, dbThrows)
  \/ \E t \in 1..MaxTasks : RestSendResume(t)
  \/ \E u \in RestSenders, content \in RestContents, r \in ReceiverIds, l \in ListingIds :
       ListingSendMessage(u, content, r, l)
  \/ \E t \in 1..MaxTasks, dbThrows \in BOOLEAN : ListingReceiverLookup(t, dbThrows)
  \/ \E t \in 1..MaxTasks, dbThrows \in BOOLEAN : ListingSendLookup(t, dbThrows)
  \/ \E t \in 1..MaxTasks : ListingSendResume(t)

Spec == Init /\ [][NextMsg]_vars

(***************************************************************************)
(* Messages and read receipts: clients connect and disconnect, send        *)
(* messages and mark the messages of a peer as read.                       *)
(***************************************************************************)
\* "a "
ReadContents == {Str(<<97, 32>>)}
ReadReceivers == {1, 2}
FromIds == {1, 2}
RestReaders == {2}

NextRead ==
  \/ \E c \in Conns, tok \in SockTokens : Connect(c, tok)
  \/ \E c \in Conns : AuthLookup(c, FALSE)
  \/ \E c \in Conns : Disconnect(c)
  \/ \E c \in Conns, content \in ReadContents, r \in ReadReceivers :
       SendMessage(c, content, r, Absent)
  \/ \E t \in 1..MaxReadTasks : SendReceiverLookup(t, FALSE)
  \/ \E t \in 1..MaxReadTasks, ok \in BOOLEAN : StoreCreateMessage(t, ok)
  \/ \E t \in 1..MaxReadTasks : SendResume(t)
  \/ \E c \in Conns, f \in FromIds : MarkMessagesRead(c, f)
  \/ \E u \in RestReaders, f \in FromIds : RestMarkMessagesAsRead(u, f)
  \/ \E t \in 1..MaxReadTasks, ok \in BOOLEAN : StoreMarkMessages(t, ok)
  \/ \E t \in 1..MaxReadTasks : MarkReadResume(t)
  \/ \E t \in 1..MaxReadTasks : RestMarkResume(t)

SpecRead == Init /\ [][NextRead]_vars

(***************************************************************************)
(* Notification services (second half of messagingService.ts).  The        *)
(* services emit only when the module variable io holds the socket server  *)
(* ("if (io)"), which setupNotificationSocket sets at start-up.            *)
(***************************************************************************)
NotificationTypes ==
  {"NEW_MESSAGE", "SEARCH_MATCH", "LISTING_INQUIRY", "LISTING_FAVORITED",
   "REPORT_RESOLVED", "WEEKLY_DIGEST"}

\* prisma.notification.count({ where: { userId, read: false } })
UnreadCount(u) ==
  Cardinality({i \in 1..Len(notifications) :
                 notifications[i].userId = u /\ ~notifications[i].read})

\* prisma.notification.create({ data: { userId, type, ... } }) : read
\* defaults to false
NewNotificationRow(t) ==
  [id |-> Len(notifications) + 1, userId |-> tasks[t].user,
   type |-> tasks[t].ntype, read |-> FALSE, task |-> t]

\* the row prisma.notificationSetting.create({ data: { userId } }) stores:
\* the column defaults of the schema, taken to be the values the service
\* falls back to ("permissive defaults")
DefaultSettings ==
  [emailNotifications |-> TRUE, newMessageEmail |-> TRUE,
   searchMatchEmail |-> TRUE, listingInquiryEmail |-> TRUE,
   listingFavoritedEmail |-> FALSE, reportResolvedEmail |-> TRUE,
   weeklyDigestEmail |-> TRUE]

\* getEmailEnabledForType(type, settings)
getEmailEnabledForType(type, st) ==
  IF st = NoSettings THEN TRUE
  ELSE CASE type = "NEW_MESSAGE" -> st.newMessageEmail
         [] type = "SEARCH_MATCH" -> st.searchMatchEmail
         [] type = "LISTING_INQUIRY" -> st.listingInquiryEmail
         [] type = "LISTING_FAVORITED" -> st.listingFavoritedEmail
         [] type = "REPORT_RESOLVED" -> st.reportResolvedEmail
         [] type = "WEEKLY_DIGEST" -> st.weeklyDigestEmail
         [] OTHER -> TRUE

\* settings?.emailNotifications ?? true
emailEnabled(st) == IF st = NoSettings THEN TRUE ELSE st.emailNotifications

CountPayload(n) == [unreadCount |-> n]

\* createNotificationService is called: it awaits notification.create
CreateNotification(u, type) ==
  /\ Len(tasks) < MaxNotifTasks
  /\ tasks' = Append(tasks, NotifTask("createNotification", 0, u, "create", Absent, type))
  /\ UNCHANGED <<connVars, storeVars, log, io>>

\* the store executes prisma.notification.create, or the call fails
StoreCreateNotification(t, ok) ==
  /\ t \in TaskIds
  /\ tasks[t].kind = "createNotification"
  /\ tasks[t].pc = "create"
  /\ IF ok
       THEN /\ notifications' = Append(notifications, NewNotificationRow(t))
            /\ tasks' = [tasks EXCEPT ![t].pc = "created",
                                      ![t].nid = Len(notifications) + 1]
       ELSE /\ notifications' = notifications
            /\ tasks' = [tasks EXCEPT ![t].pc = "createFailed",
                                      ![t].failedAt = "create"]
  /\ UNCHANGED <<connVars, messages, settings, queue, log, io>>

\* mutant: io.emit in place of io.to(room).emit, every connected socket gets
\* the new notification
CreateEmitNew_Broadcast(t) ==
  /\ t \in TaskIds
  /\ tasks[t].kind = "createNotification"
  /\ \/ /\ tasks[t].pc = "created"
        /\ io
        /\ log' = Append(log, [ToRoom(t, "new_notification", UserRoom(tasks[t].user),
                             [id |-> tasks[t].nid, type |-> tasks[t].ntype,
                              read |-> FALSE])
                               EXCEPT !.rcpt = {c \in Conns : status[c] = "connected"}])
        /\ tasks' = [tasks EXCEPT ![t].pc = "count"]
     \/ /\ tasks[t].pc = "created"
        /\ ~io
        /\ log' = log
        /\ tasks' = [tasks EXCEPT ![t].pc = "findSettings"]
     \/ /\ tasks[t].pc = "createFailed"
        /\ log' = log
        /\ tasks' = Finish(t, "threw")
  /\ UNCHANGED <<connVars, storeVars, io>>

\* mutant: the socket emission is gated by the e-mail master switch
CreateEmitNew_OnlyIfEmailEnabled(t) ==
  /\ t \in TaskIds
  /\ tasks[t].kind = "createNotification"
  /\ \/ /\ tasks[t].pc = "created"
        /\ io
        /\ log' = IF emailEnabled(settings[tasks[t].user])
                    THEN Append(log, ToRoom(t, "new_notification", UserRoom(tasks[t].user),
                                [id |-> tasks[t].nid, type |-> tasks[t].ntype,
                                 read |-> FALSE]))
                    ELSE log
        /\ tasks' = [tasks EXCEPT ![t].pc = "count"]
     \/ /\ tasks[t].pc = "created"
        /\ ~io
        /\ log' = log
        /\ tasks' = [tasks EXCEPT ![t].pc = "findSettings"]
     \/ /\ tasks[t].pc = "createFailed"
        /\ log' = log
        /\ tasks' = Finish(t, "threw")
  /\ UNCHANGED <<connVars, storeVars, io>>

\* the service resumes after create.  if (io): new_notification to the
\* personal room, then it awaits the unread count; without io it goes on to
\* the settings lookup.  A failed create is rethrown.
CreateEmitNew(t) ==
  /\ t \in TaskIds
  /\ tasks[t].kind = "createNotification"
  /\ \/ /\ tasks[t].pc = "created"
        /\ io
        /\ log' = Append(log, ToRoom(t, "new_notification", UserRoom(tasks[t].user),
                             [id |-> tasks[t].nid, type |-> tasks[t].ntype,
                              read |-> FALSE]))
        /\ tasks' = [tasks EXCEPT ![t].pc = "count"]
     \/ /\ tasks[t].pc = "created"
        /\ ~io
        /\ log' = log
        /\ tasks' = [tasks EXCEPT ![t].pc = "findSettings"]
     \/ /\ tasks[t].pc = "createFailed"
        /\ log' = log
        /\ tasks' = Finish(t, "threw")
  /\ UNCHANGED <<connVars, storeVars, io>>

\* the store executes prisma.notification.count for the awaiting service
StoreCount(t, ok) ==
  /\ t \in TaskIds
  /\ tasks[t].pc = "count"
  /\ IF ok
       THEN tasks' = [tasks EXCEPT ![t].pc = "counted",
                                   ![t].res = UnreadCount(tasks[t].user)]
       ELSE tasks' = [tasks EXCEPT ![t].pc = "countFailed",
                                   ![t].failedAt = "count"]
  /\ UNCHANGED <<connVars, storeVars, log, io>>

\* createNotificationService resumes after count: notification_count_updated,
\* then it awaits notificationSetting.findUnique; a failed count is rethrown
CreateEmitCount(t) ==
  /\ t \in TaskIds
  /\ tasks[t].kind = "createNotification"
  /\ \/ /\ tasks[t].pc = "counted"
        /\ log' = Append(log, ToRoom(t, "notification_count_updated",
                             UserRoom(tasks[t].user), CountPayload(tasks[t].res)))
        /\ tasks' = [tasks EXCEPT ![t].pc = "findSettings"]
     \/ /\ tasks[t].pc = "countFailed"
        /\ log' = log
        /\ tasks' = Finish(t, "threw")
  /\ UNCHANGED <<connVars, storeVars, io>>

\* notificationSetting.findUnique returns (or throws); without a row the
\* service awaits notificationSetting.create, otherwise it decides about the
\* e-mail job.  The local variable settings keeps what findUnique returned.
CreateFindSettings(t, dbThrows) ==
  /\ t \in TaskIds
  /\ tasks[t].kind = "createNotification"
  /\ tasks[t].pc = "findSettings"
  /\ LET st == settings[tasks[t].user] IN
       IF dbThrows THEN tasks' = FinishFailed(t, "threw")
       ELSE IF st = NoSettings THEN tasks' = [tasks EXCEPT ![t].pc = "createSettings"]
       ELSE IF emailEnabled(st) /\ getEmailEnabledForType(tasks[t].ntype, st)
         THEN tasks' = [tasks EXCEPT ![t].pc = "enqueue"]
       ELSE tasks' = Finish(t, "returned")
  /\ UNCHANGED <<connVars, storeVars, log, io>>

\* notificationSetting.create({ data: { userId } }); userId is unique, so
\* the call fails when a row was created meanwhile.  settings is still null
\* in the service, so both e-mail tests are true.
CreateDefaultSettings(t, dbThrows) ==
  /\ t \in TaskIds
  /\ tasks[t].kind = "createNotification"
  /\ tasks[t].pc = "createSettings"
  /\ IF dbThrows \/ settings[tasks[t].user] # NoSettings
       THEN /\ tasks' = FinishFailed(t, "threw")
            /\ settings' = settings
       ELSE /\ settings' = [settings EXCEPT ![tasks[t].user] = DefaultSettings]
            /\ tasks' = [tasks EXCEPT ![t].pc =
                 IF emailEnabled(NoSettings) /\ getEmailEnabledForType(tasks[t].ntype, NoSettings)
                   THEN "enqueue" ELSE "done",
                 ![t].out = IF emailEnabled(NoSettings) /\ getEmailEnabledForType(tasks[t].ntype, NoSettings)
                   THEN "" ELSE "returned"]
  /\ UNCHANGED <<connVars, messages, notifications, queue, log, io>>

\* notificationQueue.create, then return notification
CreateEnqueue(t, dbThrows) ==
  /\ t \in TaskIds
  /\ tasks[t].kind = "createNotification"
  /\ tasks[t].pc = "enqueue"
  /\ IF dbThrows
       THEN /\ tasks' = FinishFailed(t, "threw")
            /\ queue' = queue
       ELSE /\ queue' = Append(queue, [userId |-> tasks[t].user, type |-> tasks[t].ntype])
            /\ tasks' = Finish(t, "returned")
  /\ UNCHANGED <<connVars, messages, notifications, settings, log, io>>

\* a service settles with result or error out: a direct call (conn = 0) is
\* over; a socket handler that awaited the service continues in a later turn
Settle(t, out) ==
  [tasks EXCEPT ![t].pc = IF tasks[t].conn = 0 THEN "done" ELSE "reply",
                ![t].out = out]

\* socket.emit of a notification handler: the answer goes to the handler's
\* own socket
HandlerReply(t, ev, payload) ==
  IF tasks[t].conn = 0 THEN <<>> ELSE <<ToSocket(t, ev, tasks[t].conn, payload)>>

\* socket.emit("notification_error", { message, error: error.message })
NotificationError(msg, err) == [message |-> msg, error |-> err]

MarkReadFailed(t, err) ==
  HandlerReply(t, "notification_error",
               NotificationError("Failed to mark notification as read", err))

MarkAllFailed(t, err) ==
  HandlerReply(t, "notification_error",
               NotificationError("Failed to mark all notifications as read", err))

\* markNotificationAsReadService(notificationId, userId) is called: it
\* awaits notification.findFirst
MarkNotificationAsRead(nid, u) ==
  /\ Len(tasks) < MaxNotifTasks
  /\ tasks' = Append(tasks, NotifTask("markNotificationAsRead", 0, u, "findFirst", nid, ""))
  /\ UNCHANGED <<connVars, storeVars, log, io>>

\* mutant: the lookup is by id alone, ownership is not part of the filter
FindNotification_AnyOwner(nid, u) ==
  IF nid \in 1..Len(notifications) THEN nid ELSE Absent

\* prisma.notification.findFirst({ where: { id, userId } })
FindNotification(nid, u) ==
  IF nid \in 1..Len(notifications) /\ notifications[nid].userId = u
    THEN nid ELSE Absent

\* the store executes notification.findFirst on the rows it holds at that
\* moment, or the call fails
StoreFindFirst(t, ok) ==
  /\ t \in TaskIds
  /\ tasks[t].kind = "markNotificationAsRead"
  /\ tasks[t].pc = "findFirst"
  /\ IF ok
       THEN tasks' = [tasks EXCEPT ![t].pc = "found",
                        ![t].res = FindNotification(tasks[t].nid, tasks[t].user)]
       ELSE tasks' = [tasks EXCEPT ![t].pc = "findFailed",
                                   ![t].failedAt = "findFirst"]
  /\ UNCHANGED <<connVars, storeVars, log, io>>

\* the service resumes after findFirst: no row is the error "Notification
\* not found", otherwise it awaits notification.update; a failed lookup is
\* rethrown
MarkFind(t) ==
  /\ t \in TaskIds
  /\ tasks[t].kind = "markNotificationAsRead"
  /\ \/ /\ tasks[t].pc = "found"
        /\ tasks' = IF tasks[t].res = Absent
                      THEN Settle(t, "Notification not found")
                      ELSE [tasks EXCEPT ![t].pc = "update"]
     \/ /\ tasks[t].pc = "findFailed"
        /\ tasks' = Settle(t, "threw")
  /\ UNCHANGED <<connVars, storeVars, log, io>>

\* mutant: the update writes the negation of the stored flag
StoreMarkRead_Toggles(t, ok) ==
  /\ t \in TaskIds
  /\ tasks[t].kind = "markNotificationAsRead"
  /\ tasks[t].pc = "update"
  /\ IF ok
       THEN /\ notifications' = [notifications EXCEPT ![tasks[t].nid].read = ~@]
            /\ tasks' = [tasks EXCEPT ![t].pc = "marked"]
       ELSE /\ notifications' = notifications
            /\ tasks' = [tasks EXCEPT ![t].pc = "updateFailed",
                                      ![t].failedAt = "update"]
  /\ UNCHANGED <<connVars, messages, settings, queue, log, io>>

\* the store executes notification.update({ data: { read: true } }); the
\* service is still suspended at its await
StoreMarkRead(t, ok) ==
  /\ t \in TaskIds
  /\ tasks[t].kind = "markNotificationAsRead"
  /\ tasks[t].pc = "update"
  /\ IF ok
       THEN /\ notifications' = [notifications EXCEPT ![tasks[t].nid].read = TRUE]
            /\ tasks' = [tasks EXCEPT ![t].pc = "marked"]
       ELSE /\ notifications' = notifications
            /\ tasks' = [tasks EXCEPT ![t].pc = "updateFailed",
                                      ![t].failedAt = "update"]
  /\ UNCHANGED <<connVars, messages, settings, queue, log, io>>

\* markNotificationAsReadService resumes after the update: if (io), tested
\* now, it awaits the unread count; without io it returns the row
MarkUpdated(t) ==
  /\ t \in TaskIds
  /\ tasks[t].kind = "markNotificationAsRead"
  /\ tasks[t].pc = "marked"
  /\ tasks' = IF io THEN [tasks EXCEPT ![t].pc = "count"]
              ELSE Settle(t, "returned")
  /\ UNCHANGED <<connVars, storeVars, log, io>>

\* markNotificationAsReadService resumes after count: it emits the count
\* and returns; a failed update or count is rethrown
MarkEmitCount(t) ==
  /\ t \in TaskIds
  /\ tasks[t].kind = "markNotificationAsRead"
  /\ \/ /\ tasks[t].pc = "counted"
        /\ log' = Append(log, ToRoom(t, "notification_count_updated",
                             UserRoom(tasks[t].user), CountPayload(tasks[t].res)))
        /\ tasks' = Settle(t, "returned")
     \/ /\ tasks[t].pc \in {"countFailed", "updateFailed"}
        /\ log' = log
        /\ tasks' = Settle(t, "threw")
  /\ UNCHANGED <<connVars, storeVars, io>>

\* the mark_notification_read handler resumes after the service:
\* notification_marked_read, or notification_error from its catch
MarkReadReply(t) ==
  /\ t \in TaskIds
  /\ tasks[t].kind = "markNotificationAsRead"
  /\ tasks[t].pc = "reply"
  /\ log' = log \o (IF tasks[t].out = "returned"
                      THEN HandlerReply(t, "notification_marked_read",
                                        [notificationId |-> tasks[t].nid])
                      ELSE MarkReadFailed(t, tasks[t].out))
  /\ tasks' = [tasks EXCEPT ![t].pc = "done"]
  /\ UNCHANGED <<connVars, storeVars, io>>

\* markAllNotificationsAsReadService(userId) is called: it awaits updateMany
MarkAllNotificationsAsRead(u) ==
  /\ Len(tasks) < MaxNotifTasks
  /\ tasks' = Append(tasks, NotifTask("markAllNotificationsAsRead", 0, u, "updateMany", Absent, ""))
  /\ UNCHANGED <<connVars, storeVars, log, io>>

\* the store executes notification.updateMany({ where: { userId, read:
\* false }, data: { read: true } }) and reports the number of rows changed
StoreMarkAll(t, ok) ==
  /\ t \in TaskIds
  /\ tasks[t].kind = "markAllNotificationsAsRead"
  /\ tasks[t].pc = "updateMany"
  /\ IF ok
       THEN /\ notifications' =
                 [i \in 1..Len(notifications) |->
                    IF notifications[i].userId = tasks[t].user
                      THEN [notifications[i] EXCEPT !.read = TRUE]
                      ELSE notifications[i]]
            /\ tasks' = [tasks EXCEPT ![t].pc = "updated",
                                      ![t].res = UnreadCount(tasks[t].user)]
       ELSE /\ notifications' = notifications
            /\ tasks' = [tasks EXCEPT ![t].pc = "updateFailed",
                                      ![t].failedAt = "updateMany"]
  /\ UNCHANGED <<connVars, messages, settings, queue, log, io>>

\* mutant: the count is broadcast only when the bulk update changed a row
MarkAllEmit_SkipsWhenNoRows(t) ==
  /\ t \in TaskIds
  /\ tasks[t].kind = "markAllNotificationsAsRead"
  /\ \/ /\ tasks[t].pc = "updated"
        /\ log' = IF io /\ tasks[t].res > 0
                    THEN Append(log, ToRoom(t, "notification_count_updated",
                                UserRoom(tasks[t].user), CountPayload(0)))
                    ELSE log
        /\ tasks' = Settle(t, "returned")
     \/ /\ tasks[t].pc = "updateFailed"
        /\ log' = log
        /\ tasks' = Settle(t, "threw")
  /\ UNCHANGED <<connVars, storeVars, io>>

\* markAllNotificationsAsReadService resumes: if (io) it emits unreadCount
\* 0; it returns the result; a failed update is rethrown
MarkAllEmit(t) ==
  /\ t \in TaskIds
  /\ tasks[t].kind = "markAllNotificationsAsRead"
  /\ \/ /\ tasks[t].pc = "updated"
        /\ log' = IF io
                    THEN Append(log, ToRoom(t, "notification_count_updated",
                                UserRoom(tasks[t].user), CountPayload(0)))
                    ELSE log
        /\ tasks' = Settle(t, "returned")
     \/ /\ tasks[t].pc = "updateFailed"
        /\ log' = log
        /\ tasks' = Settle(t, "threw")
  /\ UNCHANGED <<connVars, storeVars, io>>

\* the mark_all_notifications_read handler resumes after the service:
\* all_notifications_marked_read with result.count, or notification_error
\* from its catch
MarkAllReply(t) ==
  /\ t \in TaskIds
  /\ tasks[t].kind = "markAllNotificationsAsRead"
  /\ tasks[t].pc = "reply"
  /\ log' = log \o (IF tasks[t].out = "returned"
                      THEN HandlerReply(t, "all_notifications_marked_read",
                                        [updatedCount |-> tasks[t].res])
                      ELSE MarkAllFailed(t, tasks[t].out))
  /\ tasks' = [tasks EXCEPT ![t].pc = "done"]
  /\ UNCHANGED <<connVars, storeVars, io>>

\* getNotificationSettingsService(userId) is called: it awaits
\* notificationSetting.findUnique
GetNotificationSettings(u) ==
  /\ Len(tasks) < MaxNotifTasks
  /\ tasks' = Append(tasks, NotifTask("getNotificationSettings", 0, u,
                                      "findSettings", Absent, ""))
  /\ UNCHANGED <<connVars, storeVars, log, io>>

\* notificationSetting.findUnique returns (or throws): the row is returned,
\* and without a row the service awaits notificationSetting.create
GetFindSettings(t, dbThrows) ==
  /\ t \in TaskIds
  /\ tasks[t].kind = "getNotificationSettings"
  /\ tasks[t].pc = "findSettings"
  /\ IF dbThrows THEN tasks' = FinishFailed(t, "threw")
     ELSE IF settings[tasks[t].user] = NoSettings
       THEN tasks' = [tasks EXCEPT ![t].pc = "createSettings"]
     ELSE tasks' = Finish(t, "returned")
  /\ UNCHANGED <<connVars, storeVars, log, io>>

\* notificationSetting.create({ data: { userId } }) stores the default row;
\* userId is unique, so the call fails when a row was created meanwhile
GetCreateSettings(t, dbThrows) ==
  /\ t \in TaskIds
  /\ tasks[t].kind = "getNotificationSettings"
  /\ tasks[t].pc = "createSettings"
  /\ IF dbThrows \/ settings[tasks[t].user] # NoSettings
       THEN /\ tasks' = FinishFailed(t, "threw")
            /\ settings' = settings
       ELSE /\ settings' = [settings EXCEPT ![tasks[t].user] = DefaultSettings]
            /\ tasks' = Finish(t, "returned")
  /\ UNCHANGED <<connVars, messages, notifications, queue, log, io>>

\* prisma.notificationSetting.upsert({ where: { userId }, update:
\* settingsData, create: { userId, ...settingsData } }): the supplied toggles
\* overwrite the row, or the column defaults when there is no row
Upsert(row, data) ==
  LET base == IF row = NoSettings THEN DefaultSettings ELSE row IN
    [k \in DOMAIN base |-> IF k \in DOMAIN data THEN data[k] ELSE base[k]]

\* updateNotificationSettingsService(userId, settingsData): one store call
UpdateNotificationSettings(u, data, dbThrows) ==
  /\ settings' = IF dbThrows THEN settings
                 ELSE [settings EXCEPT ![u] = Upsert(settings[u], data)]
  /\ UNCHANGED <<connVars, messages, notifications, queue, tasks, log, io>>

\* socket.on("mark_notification_read"): the handler awaits
\* markNotificationAsReadService(notificationId, socket.userId)
MarkNotificationRead(c, nid) ==
  /\ status[c] = "connected"
  /\ Len(tasks) < MaxNotifTasks
  /\ tasks' = Append(tasks, NotifTask("markNotificationAsRead", c, userId[c],
                                      "findFirst", nid, ""))
  /\ UNCHANGED <<connVars, storeVars, log, io>>

\* socket.on("mark_all_notifications_read"): the handler awaits
\* markAllNotificationsAsReadService(socket.userId)
MarkAllNotificationsRead(c) ==
  /\ status[c] = "connected"
  /\ Len(tasks) < MaxNotifTasks
  /\ tasks' = Append(tasks, NotifTask("markAllNotificationsAsRead", c, userId[c],
                                      "updateMany", Absent, ""))
  /\ UNCHANGED <<connVars, storeVars, log, io>>

\* socket.on("get_notification_count"): the handler awaits
\* prisma.notification.count for socket.userId
GetNotificationCount(c) ==
  /\ status[c] = "connected"
  /\ Len(tasks) < MaxNotifTasks
  /\ tasks' = Append(tasks, NotifTask("get_notification_count", c, userId[c],
                                      "count", Absent, ""))
  /\ UNCHANGED <<connVars, storeVars, log, io>>

\* the get_notification_count handler resumes after count:
\* notification_count_updated to its own socket, or notification_error
\* from its catch
GetCountReply(t) ==
  /\ t \in TaskIds
  /\ tasks[t].kind = "get_notification_count"
  /\ \/ /\ tasks[t].pc = "counted"
        /\ log' = Append(log, ToSocket(t, "notification_count_updated",
                             tasks[t].conn, CountPayload(tasks[t].res)))
        /\ tasks' = Finish(t, "returned")
     \/ /\ tasks[t].pc = "countFailed"
        /\ log' = Append(log, ToSocket(t, "notification_error", tasks[t].conn,
                             NotificationError("Failed to get notification count",
                                               "threw")))
        /\ tasks' = Finish(t, "threw")
  /\ UNCHANGED <<connVars, storeVars, io>>

(***************************************************************************)
(* The notification services called on their own: the module starts        *)
(* without a socket server (io is null) and setSocketInstance may be       *)
(* called at any moment.                                                   *)
(***************************************************************************)
NotifUsers == {1, 2}
NotifTypes == {"NEW_MESSAGE", "LISTING_FAVORITED"}
NotifIds == {1, 2}

NextNotif ==
  \/ SetSocketInstance
  \/ \E u \in NotifUsers, type \in NotifTypes : CreateNotification(u, type)
  \/ \E t \in 1..MaxNotifTasks, ok \in BOOLEAN : StoreCreateNotification(t, ok)
  \/ \E t \in 1..MaxNotifTasks : CreateEmitNew(t)
  \/ \E t \in 1..MaxNotifTasks, ok \in BOOLEAN : StoreCount(t, ok)
  \/ \E t \in 1..MaxNotifTasks : CreateEmitCount(t)
  \/ \E t \in 1..MaxNotifTasks, dbThrows \in BOOLEAN : CreateFindSettings(t, dbThrows)
  \/ \E t \in 1..MaxNotifTasks, dbThrows \in BOOLEAN : CreateDefaultSettings(t, dbThrows)
  \/ \E t \in 1..MaxNotifTasks, dbThrows \in BOOLEAN : CreateEnqueue(t, dbThrows)
  \/ \E nid \in NotifIds, u \in NotifUsers : MarkNotificationAsRead(nid, u)
  \/ \E t \in 1..MaxNotifTasks, ok \in BOOLEAN : StoreFindFirst(t, ok)
  \/ \E t \in 1..MaxNotifTasks : MarkFind(t)
  \/ \E t \in 1..MaxNotifTasks, ok \in BOOLEAN : StoreMarkRead(t, ok)
  \/ \E t \in 1..MaxNotifTasks : MarkUpdated(t)
  \/ \E t \in 1..MaxNotifTasks : MarkEmitCount(t)
  \/ \E u \in NotifUsers : MarkAllNotificationsAsRead(u)
  \/ \E t \in 1..MaxNotifTasks, ok \in BOOLEAN : StoreMarkAll(t, ok)
  \/ \E t \in 1..MaxNotifTasks : MarkAllEmit(t)
  \/ \E u \in NotifUsers : GetNotificationSettings(u)
  \/ \E t \in 1..MaxNotifTasks, dbThrows \in BOOLEAN : GetFindSettings(t, dbThrows)
  \/ \E t \in 1..MaxNotifTasks, dbThrows \in BOOLEAN : GetCreateSettings(t, dbThrows)

SpecNotif == InitModule /\ [][NextNotif]_vars

(***************************************************************************)
(* The notification services together with the socket server: clients     *)
(* connect and disconnect, createNotificationService is called by the      *)
(* application for a user, connected clients send mark_notification_read,  *)
(* mark_all_notifications_read and get_notification_count, and             *)
(* getNotificationSettingsService is called for the user.                  *)
(***************************************************************************)
SockOwners == {1}
SockTypes == {"NEW_MESSAGE"}

NextNotifSock ==
  \/ \E c \in Conns, tok \in SockTokens : Connect(c, tok)
  \/ \E c \in Conns : AuthLookup(c, FALSE)
  \/ \E c \in Conns : Disconnect(c)
  \/ \E u \in SockOwners, type \in SockTypes : CreateNotification(u, type)
  \/ \E t \in 1..MaxNotifTasks, ok \in BOOLEAN : StoreCreateNotification(t, ok)
  \/ \E t \in 1..MaxNotifTasks : CreateEmitNew(t)
  \/ \E t \in 1..MaxNotifTasks, ok \in BOOLEAN : StoreCount(t, ok)
  \/ \E t \in 1..MaxNotifTasks : CreateEmitCount(t)
  \/ \E t \in 1..MaxNotifTasks : CreateFindSettings(t, FALSE)
  \/ \E t \in 1..MaxNotifTasks : CreateDefaultSettings(t, FALSE)
  \/ \E t \in 1..MaxNotifTasks : CreateEnqueue(t, FALSE)
  \/ \E c \in Conns, nid \in NotifIds : MarkNotificationRead(c, nid)
  \/ \E t \in 1..MaxNotifTasks, ok \in BOOLEAN : StoreFindFirst(t, ok)
  \/ \E t \in 1..MaxNotifTasks : MarkFind(t)
  \/ \E t \in 1..MaxNotifTasks, ok \in BOOLEAN : StoreMarkRead(t, ok)
  \/ \E t \in 1..MaxNotifTasks : MarkUpdated(t)
  \/ \E t \in 1..MaxNotifTasks : MarkEmitCount(t)
  \/ \E t \in 1..MaxNotifTasks : MarkReadReply(t)
  \/ \E c \in Conns : MarkAllNotificationsRead(c)
  \/ \E t \in 1..MaxNotifTasks, ok \in BOOLEAN : StoreMarkAll(t, ok)
  \/ \E t \in 1..MaxNotifTasks : MarkAllEmit(t)
  \/ \E t \in 1..MaxNotifTasks : MarkAllReply(t)
  \/ \E c \in Conns : GetNotificationCount(c)
  \/ \E t \in 1..MaxNotifTasks : GetCountReply(t)
  \/ \E u \in SockOwners : GetNotificationSettings(u)
  \/ \E t \in 1..MaxNotifTasks : GetFindSettings(t, FALSE)
  \/ \E t \in 1..MaxNotifTasks : GetCreateSettings(t, FALSE)

SpecNotifSock == Init /\ [][NextNotifSock]_vars

(***************************************************************************)
(* createNotificationService for one user whose notification settings are  *)
(* edited at any moment through updateNotificationSettingsService.         *)
(***************************************************************************)
SettingsData ==
  {[emailNotifications |-> FALSE], [emailNotifications |-> TRUE],
   [newMessageEmail |-> FALSE], [listingFavoritedEmail |-> TRUE]}

NextSettings ==
  \/ \E u \in SockOwners, type \in NotifTypes : CreateNotification(u, type)
  \/ \E t \in 1..MaxNotifTasks, ok \in BOOLEAN : StoreCreateNotification(t, ok)
  \/ \E t \in 1..MaxNotifTasks : CreateEmitNew(t)
  \/ \E t \in 1..MaxNotifTasks, ok \in BOOLEAN : StoreCount(t, ok)
  \/ \E t \in 1..MaxNotifTasks : CreateEmitCount(t)
  \/ \E t \in 1..MaxNotifTasks, dbThrows \in BOOLEAN : CreateFindSettings(t, dbThrows)
  \/ \E t \in 1..MaxNotifTasks, dbThrows \in BOOLEAN : CreateDefaultSettings(t, dbThrows)
  \/ \E t \in 1..MaxNotifTasks, dbThrows \in BOOLEAN : CreateEnqueue(t, dbThrows)
  \/ \E u \in SockOwners, data \in SettingsData, dbThrows \in BOOLEAN :
       UpdateNotificationSettings(u, data, dbThrows)
  \/ \E u \in SockOwners : GetNotificationSettings(u)
  \/ \E t \in 1..MaxNotifTasks, dbThrows \in BOOLEAN : GetFindSettings(t, dbThrows)
  \/ \E t \in 1..MaxNotifTasks, dbThrows \in BOOLEAN : GetCreateSettings(t, dbThrows)

SpecSettings == Init /\ [][NextSettings]_vars

(***************************************************************************)
(* The server some time after start-up: every socket is connected (the     *)
(* first for user 1, the others for user 2), and the store holds one       *)
(* unread message from user 1 to user 2 and one unread notification of     *)
(* user 1.  From there clients send and mark messages while the            *)
(* notification services are called.                                       *)
(***************************************************************************)
LiveUser(c) == IF c = 1 THEN 1 ELSE 2

InitLive ==
  /\ status = [c \in Conns |-> "connected"]
  /\ handshake = [c \in Conns |-> SignedToken(LiveUser(c))]
  /\ authErr = [c \in Conns |-> NoErr]
  /\ userId = [c \in Conns |-> LiveUser(c)]
  /\ rooms = [c \in Conns |-> RoomsOnConnection(LiveUser(c))]
  /\ joins = [c \in Conns |-> EmptyBag]
  /\ presence = [c \in Conns |-> [online |-> 1, offline |-> 0]]
  /\ messages = <<[id |-> 1, content |-> <<97>>, senderId |-> 1, receiverId |-> 2,
                   listingId |-> Absent, isRead |-> FALSE, task |-> 0]>>
  /\ notifications = <<[id |-> 1, userId |-> 1, type |-> "NEW_MESSAGE",
                        read |-> FALSE, task |-> 0]>>
  /\ settings = [u \in Users |-> NoSettings]
  /\ queue = <<>>
  /\ tasks = <<>>
  /\ log = <<>>
  /\ io = TRUE

NextAll ==
  \/ \E c \in Conns : Disconnect(c)
  \/ \E c \in Conns, content \in ReadContents, r \in ReadReceivers :
       SendMessage(c, content, r, Absent)
  \/ \E t \in 1..MaxReadTasks : SendReceiverLookup(t, FALSE)
  \/ \E t \in 1..MaxReadTasks, ok \in BOOLEAN : StoreCreateMessage(t, ok)
  \/ \E t \in 1..MaxReadTasks : SendResume(t)
  \/ \E c \in Conns, f \in FromIds : MarkMessagesRead(c, f)
  \/ \E t \in 1..MaxReadTasks, ok \in BOOLEAN : StoreMarkMessages(t, ok)
  \/ \E t \in 1..MaxReadTasks : MarkReadResume(t)
  \/ \E u \in SockOwners, type \in SockTypes : CreateNotification(u, type)
  \/ \E t \in 1..MaxReadTasks, ok \in BOOLEAN : StoreCreateNotification(t, ok)
  \/ \E t \in 1..MaxReadTasks : CreateEmitNew(t)
  \/ \E t \in 1..MaxReadTasks, ok \in BOOLEAN : StoreCount(t, ok)
  \/ \E t \in 1..MaxReadTasks : CreateEmitCount(t)
  \/ \E t \in 1..MaxReadTasks : CreateFindSettings(t, FALSE)
  \/ \E t \in 1..MaxReadTasks : CreateDefaultSettings(t, FALSE)
  \/ \E t \in 1..MaxReadTasks : CreateEnqueue(t, FALSE)
  \/ \E nid \in NotifIds, u \in NotifUsers : MarkNotificationAsRead(nid, u)
  \/ \E t \in 1..MaxReadTasks, ok \in BOOLEAN : StoreFindFirst(t, ok)
  \/ \E t \in 1..MaxReadTasks : MarkFind(t)
  \/ \E t \in 1..MaxReadTasks, ok \in BOOLEAN : StoreMarkRead(t, ok)
  \/ \E t \in 1..MaxReadTasks : MarkUpdated(t)
  \/ \E t \in 1..MaxReadTasks : MarkEmitCount(t)
  \/ \E u \in NotifUsers : MarkAllNotificationsAsRead(u)
  \/ \E t \in 1..MaxReadTasks, ok \in BOOLEAN : StoreMarkAll(t, ok)
  \/ \E t \in 1..MaxReadTasks : MarkAllEmit(t)

SpecAll == InitLive /\ [][NextAll]_vars

(***************************************************************************)
(* Vocabulary of the properties                                            *)
(***************************************************************************)
LogIds == 1..Len(log)
\* the emissions of handler t, in the order they were made
EmitsOf(t) == SelectSeq(log, LAMBDA e : e.task = t)
\* the Message rows handler t created
RowsOf(t) == {i \in 1..Len(messages) : messages[i].task = t}
EventsOf(t) == [i \in 1..Len(EmitsOf(t)) |-> EmitsOf(t)[i].ev]
FanOutEvents == {"new_message", "message_notification", "message_sent"}
SocketSends == {t \in TaskIds : tasks[t].kind = "send_message"}
Done(t) == tasks[t].pc = "done"

\* non-blank content, existing receiver, sender # receiver
ValidSend(t) ==
  /\ tasks[t].content.present
  /\ \E i \in 1..Len(tasks[t].content.text) : tasks[t].content.text[i] \notin WhiteSpace
  /\ tasks[t].receiverId \in Users
  /\ tasks[t].receiverId # tasks[t].user

\* handler t emitted exactly one event, message_error, to its own socket
OnlyErrorToCaller(t) ==
  /\ Len(EmitsOf(t)) = 1
  /\ EmitsOf(t)[1].ev = "message_error"
  /\ EmitsOf(t)[1].to = tasks[t].conn
  /\ EmitsOf(t)[1].room = NoRoom
  /\ EmitsOf(t)[1].rcpt \subseteq {tasks[t].conn}

\* C1, state part: a finished valid send_message whose persistence calls did
\* not fail persisted exactly one row (trimmed content, unread) and made
\* exactly three emissions, in order: new_message to the canonical room of
\* the pair, message_notification to the receiver's personal room,
\* message_sent to the sending socket.
C1_OneRowThreeEmissions ==
  \A t \in SocketSends :
    (Done(t) /\ ValidSend(t) /\ tasks[t].failedAt = "") =>
      /\ Cardinality(RowsOf(t)) = 1
      /\ \A i \in RowsOf(t) :
           /\ messages[i].content = Trim(tasks[t].content.text)
           /\ messages[i].content # <<>>
           /\ Head(messages[i].content) \notin WhiteSpace
           /\ messages[i].content[Len(messages[i].content)] \notin WhiteSpace
           /\ messages[i].senderId = tasks[t].user
           /\ messages[i].receiverId = tasks[t].receiverId
           /\ EmitsOf(t)[1].payload.id = messages[i].id
           /\ EmitsOf(t)[1].payload.isRead = FALSE
      /\ EventsOf(t) = <<"new_message", "message_notification", "message_sent">>
      /\ EmitsOf(t)[1].room = ConversationRoom(tasks[t].receiverId, tasks[t].user)
      /\ EmitsOf(t)[1].to = 0
      /\ EmitsOf(t)[2].room = UserRoom(tasks[t].receiverId)
      /\ EmitsOf(t)[2].to = 0
      /\ EmitsOf(t)[3].to = tasks[t].conn

\* C1, step part: a row is created unread, and a fan-out event of handler t
\* is emitted only in a step that starts with t's row already stored.
C1_PersistBeforeEmit ==
  /\ \A i \in (Len(messages) + 1)..Len(messages') : messages'[i].isRead = FALSE
  /\ \A j \in (Len(log) + 1)..Len(log') :
       log'[j].ev \in FanOutEvents =>
         \E i \in 1..Len(messages) : messages[i].task = log'[j].task

\* C1: every valid send_message persists exactly one unread row with the
\* trimmed content and then makes exactly the three emissions room broadcast,
\* receiver notification, sender acknowledgement, in that order; nothing is
\* emitted before the row is persisted.
C1_SendPersistsThenFansOut ==
  []C1_OneRowThreeEmissions /\ [][C1_PersistBeforeEmit]_vars

\* C1 witness: a valid send finished, and the receiver's connection got the
\* notification while the sender got the acknowledgement.
C1_Witness ==
  \E t \in SocketSends :
    /\ Done(t) /\ ValidSend(t) /\ tasks[t].out = "sent"
    /\ EmitsOf(t)[2].rcpt # {}
    /\ EmitsOf(t)[3].rcpt = {tasks[t].conn}
    /\ tasks[t].content.text # Trim(tasks[t].content.text)

\* the three conditions of acceptance, read off the handshake
TokenGood(c) ==
  /\ handshake[c].kind = "signed"
  /\ handshake[c].uid \in Users
  /\ handshake[c].uid \in Verified

\* the catch block of the middleware ran although the token verified: the
\* directory lookup threw
LookupThrew(c) ==
  /\ status[c] = "refused"
  /\ handshake[c].kind = "signed"
  /\ authErr[c] = "Invalid authentication token"

\* C2: a connection is accepted, tagged with the user id, iff its token
\* verifies, the user exists and the user is verified; a missing token, an
\* invalid token, an unknown user and an unverified user are refused.  (A
\* directory lookup that throws refuses the connection whatever the token.)
C2_AcceptedIffVerifiedUser ==
  \A c \in Conns :
    /\ status[c] \in {"connected", "disconnected"} =>
         TokenGood(c) /\ userId[c] = handshake[c].uid
    /\ (status[c] = "refused" /\ ~LookupThrew(c)) => ~TokenGood(c)
    /\ (status[c] \notin {"idle", "authenticating"} /\ ~TokenGood(c)) =>
         status[c] = "refused" /\ userId[c] = Absent
    /\ (status[c] = "authenticating") => handshake[c].kind = "signed"

\* C2 witness: one connection was accepted and another, carrying a signed
\* token of an unverified user, was refused.
C2_Witness ==
  \E c, d \in Conns :
    /\ status[c] = "connected" /\ userId[c] \in Verified
    /\ status[d] = "refused" /\ handshake[d] = SignedToken(3)
    /\ authErr[d] = "Invalid or unverified user"

\* C3: a connection that is not (yet) accepted is in no room, has had no
\* handler run and no presence update made for it, and has received no event.
C3_NoPartialAuth ==
  \A c \in Conns :
    status[c] \in {"idle", "authenticating", "refused"} =>
      /\ rooms[c] = {}
      /\ userId[c] = Absent
      /\ presence[c].online = 0 /\ presence[c].offline = 0
      /\ \A t \in TaskIds : tasks[t].conn # c
      /\ \A j \in LogIds : c \notin log[j].rcpt /\ log[j].to # c

\* C3 witness: a connection of user 2 was refused while an event addressed
\* to the personal room of user 2 was emitted.
C3_Witness ==
  \E c \in Conns :
    /\ status[c] = "refused" /\ handshake[c].uid = 2
    /\ \E j \in LogIds : log[j].room = UserRoom(2)

\* C4: no stored message has sender = receiver; a send_message addressed to
\* the caller's own user never stores a row nor broadcasts, and ends with
\* exactly one message_error to the caller.
C4_NoSelfMessage ==
  /\ \A i \in 1..Len(messages) : messages[i].senderId # messages[i].receiverId
  /\ \A t \in SocketSends :
       tasks[t].receiverId = tasks[t].user =>
         /\ RowsOf(t) = {}
         /\ \A k \in 1..Len(EmitsOf(t)) : EmitsOf(t)[k].ev \notin FanOutEvents
         /\ Done(t) => OnlyErrorToCaller(t)

\* C4 witness: a send_message with content and receiver = caller finished
\* with the self-message error.
C4_Witness ==
  \E t \in SocketSends :
       /\ Done(t) /\ tasks[t].receiverId = tasks[t].user
       /\ tasks[t].out = "Cannot send message to yourself"
       /\ tasks[t].content = Str(<<160, 97, 10>>)

\* C5: send_message with missing, empty or whitespace-only content emits
\* message_error to the caller, stores no row and emits no fan-out event.
C5_BlankContentRejected ==
  \A t \in SocketSends :
    ( \/ ~tasks[t].content.present
      \/ \A i \in 1..Len(tasks[t].content.text) : tasks[t].content.text[i] \in WhiteSpace ) =>
      /\ Done(t)
      /\ RowsOf(t) = {}
      /\ OnlyErrorToCaller(t)
      /\ EmitsOf(t)[1].payload.message = "Message content is required"

\* C5 witness: a whitespace-only send_message was rejected.
C5_Witness ==
  \E t \in SocketSends : tasks[t].content = Str(<<32, 11>>) /\ Done(t)

ValidationErrors ==
  {"Message content is required", "Receiver not found",
   "Cannot send message to yourself"}

FailedValidation(t) == Done(t) /\ tasks[t].out \in ValidationErrors

\* C6, state part: a send_message that failed validation made one emission,
\* message_error to the sending socket alone, and stored no row.
C6_ErrorToSenderOnly ==
  \A t \in SocketSends :
    FailedValidation(t) => RowsOf(t) = {} /\ OnlyErrorToCaller(t)

\* C6, step part: the step in which a send_message fails validation leaves
\* every connection's status and room memberships as they were and stores
\* nothing.
C6_ConnectionUntouched ==
  (\E t \in 1..Len(tasks') :
      /\ tasks'[t].kind = "send_message"
      /\ tasks'[t].pc = "done" /\ tasks'[t].out \in ValidationErrors
      /\ (t > Len(tasks) \/ tasks[t].pc # "done"))
  => UNCHANGED <<status, rooms, userId, messages, io>>

\* C6: a validation failure of send_message is reported by message_error to
\* the sending connection only; nobody else receives anything, no row is
\* created, the connection stays open with its rooms unchanged.
C6_ValidationFailureIsLocal ==
  []C6_ErrorToSenderOnly /\ [][C6_ConnectionUntouched]_vars

\* C6 witness: an unknown receiver was rejected while the sender was still
\* connected and in a conversation room, and another connection was live.
C6_Witness ==
  \E t \in SocketSends :
    /\ tasks[t].out = "Receiver not found"
    /\ status[tasks[t].conn] = "connected"
    /\ Cardinality(rooms[tasks[t].conn]) > 1
    /\ \E d \in Conns : d # tasks[t].conn /\ status[d] = "connected"

\* C7 (as claimed): a send_message that supplies a listingId of no existing
\* listing stores no row, broadcasts nothing and gets message_error.
C7_UnknownListingRejected ==
  \A t \in SocketSends :
    (tasks[t].listingId # Absent /\ tasks[t].listingId \notin Listings) =>
      /\ RowsOf(t) = {}
      /\ \A k \in 1..Len(EmitsOf(t)) : EmitsOf(t)[k].ev \notin FanOutEvents
      /\ Done(t) => OnlyErrorToCaller(t)

\* C8: when the create call of send_message fails, the handler emits only
\* message_error to the sender; and every send_message either stored its row
\* and emitted both broadcasts and the acknowledgement, or emitted none.
C8_NoBroadcastWithoutCommit ==
  \A t \in SocketSends :
    /\ tasks[t].failedAt # "" =>
         /\ RowsOf(t) = {}
         /\ \A k \in 1..Len(EmitsOf(t)) : EmitsOf(t)[k].ev \notin FanOutEvents
         /\ Done(t) => OnlyErrorToCaller(t)
    /\ LET evs == {EmitsOf(t)[k].ev : k \in 1..Len(EmitsOf(t))} IN
         \/ evs \cap FanOutEvents = {}
         \/ FanOutEvents \subseteq evs /\ RowsOf(t) # {}
    /\ (Done(t) /\ RowsOf(t) # {}) =>
         FanOutEvents \subseteq {EmitsOf(t)[k].ev : k \in 1..Len(EmitsOf(t))}

\* C8 witness: the create call of a valid send_message failed and the
\* handler finished.
C8_Witness ==
  \E t \in SocketSends :
    /\ Done(t) /\ tasks[t].failedAt = "create" /\ ValidSend(t)
    /\ \E d \in Conns : status[d] = "connected" /\ userId[d] = tasks[t].receiverId

NotifKinds == {"createNotification", "markNotificationAsRead",
               "markAllNotificationsAsRead"}
\* the notification service invocations for user u
NotifOps(u) == {t \in TaskIds : tasks[t].kind \in NotifKinds /\ tasks[t].user = u}
\* the notification_count_updated events sent to the personal room of u
CountEvents(u) ==
  {j \in LogIds : log[j].ev = "notification_count_updated" /\ log[j].room = UserRoom(u)}
LastOf(S) == CHOOSE j \in S : \A k \in S : k <= j

\* C9 (as claimed), step part: a notification_count_updated event emitted by
\* one of the three services carries the number of unread rows stored for
\* that user in the state it is emitted in (the emitting step leaves the
\* store unchanged).
C9_EmittedCountIsStoredCount ==
  \A j \in (Len(log) + 1)..Len(log') :
    (log'[j].ev = "notification_count_updated" /\ tasks[log'[j].task].kind \in NotifKinds) =>
      /\ notifications' = notifications
      /\ log'[j].payload.unreadCount = UnreadCount(tasks[log'[j].task].user)

\* C9 (as claimed): every notification_count_updated emitted after
\* createNotification, markNotificationAsRead or markAllNotificationsAsRead
\* carries the live number of unread notifications of the user, under every
\* interleaving of the services.
C9_CountIsLiveAtEmission == [][C9_EmittedCountIsStoredCount]_vars

\* C10 (as claimed): once every notification operation for a user has
\* completed (none of them failed), the last notification_count_updated sent
\* to the user's personal room carries the stored number of unread
\* notifications of that user.
C10_CounterConverges ==
  \A u \in Users :
    ( /\ \A t \in NotifOps(u) : Done(t) /\ tasks[t].failedAt = "" /\ tasks[t].out = "returned"
      /\ CountEvents(u) # {} ) =>
      log[LastOf(CountEvents(u))].payload.unreadCount = UnreadCount(u)

MarkOneOps == {t \in TaskIds : tasks[t].kind = "markNotificationAsRead"}
\* a notification with this id is stored and belongs to user u
OwnedBy(nid, u) == nid \in 1..Len(notifications) /\ notifications[nid].userId = u
NewLogIds == (Len(log) + 1)..Len(log')

\* C11, step part: when the lookup of markNotificationAsRead is executed for
\* an id that is not stored or belongs to another user, it finds no row (or
\* the call itself fails); the service then ends with the not-found error
\* without an emission; and the socket handler that awaited it makes one
\* emission, notification_error to its own socket, received by it if it is
\* still connected.  None of these steps changes a row.
C11_NotFoundStep ==
  \A t \in MarkOneOps :
    /\ ( /\ tasks[t].pc = "findFirst" /\ tasks'[t].pc # "findFirst"
         /\ ~OwnedBy(tasks[t].nid, tasks[t].user) ) =>
         /\ tasks'[t].pc \in {"found", "findFailed"}
         /\ tasks'[t].pc = "found" => tasks'[t].res = Absent
         /\ notifications' = notifications
         /\ log' = log
    /\ ( /\ tasks[t].pc = "found" /\ tasks'[t].pc # "found"
         /\ tasks[t].res = Absent ) =>
         /\ tasks'[t].out = "Notification not found"
         /\ tasks'[t].pc = IF tasks[t].conn = 0 THEN "done" ELSE "reply"
         /\ notifications' = notifications
         /\ log' = log
    /\ ( /\ tasks[t].pc = "reply" /\ tasks'[t].pc # "reply"
         /\ tasks[t].out = "Notification not found" ) =>
         /\ tasks'[t].pc = "done"
         /\ tasks'[t].out = "Notification not found"
         /\ notifications' = notifications
         /\ Len(log') = Len(log) + 1
         /\ \A j \in NewLogIds :
              /\ log'[j].ev = "notification_error"
              /\ log'[j].task = t
              /\ log'[j].to = tasks[t].conn
              /\ log'[j].rcpt = {c \in {tasks[t].conn} : status[c] = "connected"}
              /\ log'[j].payload.error = "Notification not found"

\* C11, state part: a markNotificationAsRead that ended with the not-found
\* error emitted neither notification_count_updated nor
\* notification_marked_read; called over the socket it emitted exactly
\* notification_error, to the caller, once its handler has finished.
C11_NotFoundFinal ==
  \A t \in MarkOneOps :
    tasks[t].out = "Notification not found" =>
      /\ \A k \in 1..Len(EmitsOf(t)) :
           EmitsOf(t)[k].ev \notin {"notification_count_updated", "notification_marked_read"}
      /\ (Done(t) /\ tasks[t].conn # 0) =>
           /\ EventsOf(t) = <<"notification_error">>
           /\ EmitsOf(t)[1].to = tasks[t].conn
           /\ EmitsOf(t)[1].rcpt \subseteq {tasks[t].conn}

\* C11: markNotificationAsRead(id, userId) on a notification that does not
\* exist or is owned by a different user fails with the not-found error,
\* leaves the read flags unchanged and emits no notification_count_updated;
\* over the socket the caller gets notification_error and no
\* notification_marked_read.
C11_MarkReadNotFound ==
  []C11_NotFoundFinal /\ [][C11_NotFoundStep]_vars

\* C11 witness: a connected client of user 2 asked to mark an unread
\* notification of user 1; the handler ended with the not-found error, the
\* client received notification_error and the row is still unread.
C11_Witness ==
  \E t \in MarkOneOps :
    /\ tasks[t].conn # 0 /\ Done(t) /\ tasks[t].out = "Notification not found"
    /\ tasks[t].nid \in 1..Len(notifications)
    /\ notifications[tasks[t].nid].userId # tasks[t].user
    /\ ~notifications[tasks[t].nid].read
    /\ EmitsOf(t)[1].rcpt = {tasks[t].conn}

CreateOps == {t \in TaskIds : tasks[t].kind = "createNotification"}
\* the connected sockets of user u
ConnectionsOf(u) == {c \in Conns : status[c] = "connected" /\ userId[c] = u}
\* the Notification rows service invocation t created
NotifRowsOf(t) == {i \in 1..Len(notifications) : notifications[i].task = t}

\* C12, step part: a notification row is created unread; createNotification
\* emits new_notification only once its row is stored and before anything
\* else, and notification_count_updated only after its new_notification;
\* each of the two goes to the personal room of the owner and is delivered
\* to exactly the connected sockets of the owner.
C12_OrderStep ==
  /\ \A i \in (Len(notifications) + 1)..Len(notifications') :
       notifications'[i].read = FALSE
  /\ \A j \in NewLogIds :
       log'[j].task \in CreateOps =>
         LET t == log'[j].task IN
           /\ log'[j].ev \in {"new_notification", "notification_count_updated"}
           /\ log'[j].ev = "new_notification" =>
                /\ EmitsOf(t) = <<>>
                /\ \E i \in NotifRowsOf(t) : notifications[i].id = log'[j].payload.id
                /\ log'[j].payload.read = FALSE
           /\ log'[j].ev = "notification_count_updated" =>
                EventsOf(t) = <<"new_notification">>
           /\ log'[j].room = UserRoom(tasks[t].user)
           /\ log'[j].to = 0
           /\ log'[j].rcpt = ConnectionsOf(tasks[t].user)

\* C12, state part: the emissions of a createNotification are, in order,
\* new_notification and notification_count_updated, both present once the
\* service has returned; no socket of another user is among the recipients,
\* and a socket that received the first and is still connected received the
\* second.
C12_BothEvents ==
  \A t \in CreateOps :
    /\ EventsOf(t) \in {<<>>, <<"new_notification">>,
                        <<"new_notification", "notification_count_updated">>}
    /\ (Done(t) /\ tasks[t].out = "returned") => Len(EmitsOf(t)) = 2
    /\ \A k \in 1..Len(EmitsOf(t)) :
         /\ EmitsOf(t)[k].room = UserRoom(tasks[t].user)
         /\ \A c \in EmitsOf(t)[k].rcpt : userId[c] = tasks[t].user
    /\ Len(EmitsOf(t)) = 2 =>
         \A c \in EmitsOf(t)[1].rcpt :
           status[c] = "connected" => c \in EmitsOf(t)[2].rcpt

\* C12: createNotification persists the notification unread, then emits
\* new_notification to the personal room of the owner, then
\* notification_count_updated to the same room; the connected sockets of the
\* owner receive the events and no socket of another user receives either.
C12_PersistThenNotifyOwner ==
  []C12_BothEvents /\ [][C12_OrderStep]_vars

\* C12 witness: a createNotification returned, a socket of the owner
\* received both events, and a socket of another user was connected all
\* the while.
C12_Witness ==
  \E t \in CreateOps :
    /\ Done(t) /\ tasks[t].out = "returned"
    /\ EmitsOf(t)[1].rcpt # {} /\ EmitsOf(t)[2].rcpt = EmitsOf(t)[1].rcpt
    /\ \E d \in Conns : status[d] = "connected" /\ userId[d] # tasks[t].user

\* C13 (as claimed): a notification is committed and fully broadcast or not
\* broadcast at all: a createNotification whose create call or whose
\* unread-count query failed has emitted nothing, and a finished
\* createNotification has emitted both new_notification and
\* notification_count_updated or neither.
C13_AllOrNothing ==
  \A t \in CreateOps :
    /\ tasks[t].failedAt \in {"create", "count"} => EmitsOf(t) = <<>>
    /\ Done(t) =>
         EventsOf(t) \in {<<>>, <<"new_notification", "notification_count_updated">>}

MarkAllOps == {t \in TaskIds : tasks[t].kind = "markAllNotificationsAsRead"}

\* C14, step part: the bulk update of markAllNotificationsAsRead(userId)
\* leaves every notification of that user read, changes nothing else of any
\* row, and reports the number of rows that were unread.
C14_MarkAllStep ==
  \A t \in MarkAllOps :
    (tasks[t].pc = "updateMany" /\ tasks'[t].pc = "updated") =>
      /\ Len(notifications') = Len(notifications)
      /\ \A i \in 1..Len(notifications) :
           IF notifications[i].userId = tasks[t].user
             THEN notifications'[i] = [notifications[i] EXCEPT !.read = TRUE]
             ELSE notifications'[i] = notifications[i]
      /\ tasks'[t].res =
           Cardinality({i \in 1..Len(notifications) :
                          notifications[i].userId = tasks[t].user /\ ~notifications[i].read})

\* C14, state part: a markAllNotificationsAsRead that returned broadcast
\* notification_count_updated with unreadCount 0 to the personal room of
\* the user, whatever number of rows the update changed.
C14_ZeroBroadcast ==
  \A t \in MarkAllOps :
    (Done(t) /\ tasks[t].out = "returned") =>
      /\ Len(EmitsOf(t)) >= 1
      /\ EmitsOf(t)[1].ev = "notification_count_updated"
      /\ EmitsOf(t)[1].payload = [unreadCount |-> 0]
      /\ EmitsOf(t)[1].room = UserRoom(tasks[t].user)
      /\ EmitsOf(t)[1].to = 0
      /\ \A c \in EmitsOf(t)[1].rcpt : userId[c] = tasks[t].user

\* C14: markAllNotificationsAsRead(userId) sets every unread notification of
\* that user to read, leaves the notifications of other users unchanged and
\* broadcasts notification_count_updated with unreadCount = 0 to the
\* personal room of the user, also when no row was changed.
C14_MarkAllReadsAndBroadcastsZero ==
  []C14_ZeroBroadcast /\ [][C14_MarkAllStep]_vars

\* C14 witness: a client of user 2, who has no notification, sent
\* mark_all_notifications_read while user 1 had an unread one: no row was
\* changed, the row of user 1 is still unread, and the client received the
\* zero count.
C14_Witness ==
  \E t \in MarkAllOps :
    /\ Done(t) /\ tasks[t].out = "returned" /\ tasks[t].res = 0
    /\ EmitsOf(t)[1].rcpt # {}
    /\ \E i \in 1..Len(notifications) :
         notifications[i].userId # tasks[t].user /\ ~notifications[i].read

\* the events a createNotification that has come this far has emitted,
\* computed from its progress alone
ExpectedEvents(t) ==
  IF tasks[t].pc \in {"create", "created", "createFailed"} \/ tasks[t].failedAt = "create"
    THEN <<>>
  ELSE IF tasks[t].pc \in {"count", "counted", "countFailed"} \/ tasks[t].failedAt = "count"
    THEN <<"new_notification">>
  ELSE <<"new_notification", "notification_count_updated">>

\* C15, state part: whatever the settings row of the owner holds (no row,
\* the defaults, any toggle switched), the socket events of a
\* createNotification are a function of its own progress and of the stored
\* notification: new_notification with the row's id and type once the row
\* is stored, notification_count_updated with the counted number once the
\* count returned; both are out before the settings are first read.
C15_EmissionsIgnoreSettings ==
  \A t \in CreateOps :
    /\ EventsOf(t) = ExpectedEvents(t)
    /\ \A k \in 1..Len(EmitsOf(t)) :
         /\ EmitsOf(t)[k].room = UserRoom(tasks[t].user)
         /\ EmitsOf(t)[k].to = 0
    /\ Len(EmitsOf(t)) >= 1 =>
         EmitsOf(t)[1].payload =
           [id |-> tasks[t].nid, type |-> tasks[t].ntype, read |-> FALSE]
    /\ (Len(EmitsOf(t)) = 2 /\ tasks[t].pc # "done") =>
         EmitsOf(t)[2].payload = [unreadCount |-> tasks[t].res]

\* C15, step part: a step that writes the settings or the e-mail queue
\* emits nothing, and the only invocation that advances with a write of the
\* settings is the one that stored the default row; a step that
\* emits leaves settings and queue alone; and when the settings are read,
\* they decide between the e-mail job and no e-mail job only.
C15_SettingsDecideEmailOnly ==
  /\ (settings' # settings \/ queue' # queue) => log' = log
  /\ log' # log => settings' = settings /\ queue' = queue
  /\ (settings' # settings /\ tasks' # tasks) =>
       \E t \in TaskIds : tasks[t].pc = "createSettings" /\ tasks'[t].pc # "createSettings"
  /\ \A t \in CreateOps :
       (tasks[t].pc = "findSettings" /\ tasks'[t].pc # "findSettings"
          /\ tasks'[t].failedAt = "") =>
         LET st == settings[tasks[t].user] IN
           /\ tasks'[t].pc = "createSettings" <=> st = NoSettings
           /\ tasks'[t].pc = "enqueue" <=>
                (st # NoSettings /\ st.emailNotifications
                   /\ getEmailEnabledForType(tasks[t].ntype, st))
           /\ tasks'[t].pc = "done" <=>
                (st # NoSettings /\ ~(st.emailNotifications
                   /\ getEmailEnabledForType(tasks[t].ntype, st)))
  /\ Len(queue') > Len(queue) =>
       \E t \in CreateOps : tasks[t].pc = "enqueue" /\ tasks'[t].out = "returned"

\* C15: socket delivery of a notification does not depend on
\* NotificationSetting: under every settings value the owner can have, the
\* new_notification and notification_count_updated events of a
\* createNotification are the same function of the invocation and of the
\* stored notifications; the settings decide only whether an e-mail job is
\* queued.
C15_DeliveryIgnoresSettings ==
  []C15_EmissionsIgnoreSettings /\ [][C15_SettingsDecideEmailOnly]_vars

\* C15 witness: two createNotification of the same type for the same user
\* returned, the settings were switched in between so that exactly one of
\* them queued an e-mail job, and both emitted the two socket events.
C15_Witness ==
  \E t1, t2 \in CreateOps :
    /\ t1 < t2 /\ tasks[t1].user = tasks[t2].user /\ tasks[t1].ntype = tasks[t2].ntype
    /\ tasks[t1].out = "returned" /\ tasks[t2].out = "returned"
    /\ Len(queue) = 1
    /\ Len(EmitsOf(t1)) = 2 /\ Len(EmitsOf(t2)) = 2
    /\ ~settings[tasks[t1].user].emailNotifications

EmailSideCalls == {"findSettings", "createSettings", "enqueue"}

\* C16 (as claimed): a createNotification whose settings lookup, settings
\* creation or e-mail job creation failed still returns the persisted
\* notification and raises no error to its caller.
C16_EmailFailureSwallowed ==
  \A t \in CreateOps :
    (Done(t) /\ tasks[t].failedAt \in EmailSideCalls) =>
      /\ tasks[t].out = "returned"
      /\ NotifRowsOf(t) # {}

MarkMsgOps ==
  {t \in TaskIds : tasks[t].kind \in {"mark_messages_read", "markMessagesAsRead"}}
\* the stored messages from user f to user u
SentBy(f, u) ==
  {i \in 1..Len(messages) : messages[i].senderId = f /\ messages[i].receiverId = u}
\* those of them that are unread
Pending(f, u) == {i \in SentBy(f, u) : ~messages[i].isRead}

\* C17, step part: a bulk update of mark_messages_read(fromUserId) reports
\* the number N of stored unread messages from fromUserId to the caller;
\* and when an earlier mark of the same caller for the same fromUserId has
\* run its update and no message from fromUserId to the caller was stored
\* since, it reports 0.
C17_UpdateStep ==
  \A t \in MarkMsgOps :
    (tasks[t].pc = "updateMany" /\ tasks'[t].pc = "updated") =>
      /\ tasks'[t].res = Cardinality(Pending(tasks[t].fromUserId, tasks[t].user))
      /\ \A t1 \in MarkMsgOps \ {t} :
           ( /\ tasks[t1].user = tasks[t].user
             /\ tasks[t1].fromUserId = tasks[t].fromUserId
             /\ tasks[t1].seen # Absent
             /\ \A i \in SentBy(tasks[t].fromUserId, tasks[t].user) :
                  i <= tasks[t1].seen ) =>
             tasks'[t].res = 0

\* C17, state part: a mark whose update did not fail ends successfully,
\* whatever the reported number; over the socket the caller is told that
\* number.
C17_ZeroStillSucceeds ==
  \A t \in MarkMsgOps :
    (Done(t) /\ tasks[t].failedAt = "") =>
      /\ tasks[t].out = "marked"
      /\ tasks[t].res >= 0
      /\ tasks[t].kind = "mark_messages_read" =>
           \E k \in 1..Len(EmitsOf(t)) :
             /\ EmitsOf(t)[k].ev = "messages_marked_read"
             /\ EmitsOf(t)[k].payload = [count |-> tasks[t].res]

\* C17: mark_messages_read(fromUserId) issued twice in a row by the same
\* user with no new message in between: the first call reports the number
\* of unread messages from fromUserId to the caller, the second reports 0
\* and still succeeds.
C17_SecondMarkReportsZero ==
  []C17_ZeroStillSucceeds /\ [][C17_UpdateStep]_vars

\* C17 witness: the same user marked the messages of the same peer twice
\* over the socket with no message stored in between; the first call
\* reported one message, the second reported none, both succeeded.
C17_Witness ==
  \E t1, t2 \in MarkMsgOps :
    /\ t1 < t2
    /\ tasks[t1].kind = "mark_messages_read" /\ tasks[t2].kind = "mark_messages_read"
    /\ tasks[t1].user = tasks[t2].user /\ tasks[t1].fromUserId = tasks[t2].fromUserId
    /\ tasks[t1].out = "marked" /\ tasks[t2].out = "marked"
    /\ tasks[t1].seen = tasks[t2].seen
    /\ tasks[t1].res = 1 /\ tasks[t2].res = 0

SocketMarks == {t \in TaskIds : tasks[t].kind = "mark_messages_read"}

\* C19, step part: the bulk update flips exactly the unread messages from
\* fromUserId to the caller and reports their number; the receipts are
\* emitted together in a later step, by a handler whose update succeeded:
\* messages_read (readBy = caller, count = rows flipped) to the personal
\* room of fromUserId, delivered to every connected socket of that user,
\* then messages_marked_read with the same count to the calling socket only.
C19_ReceiptStep ==
  /\ \A t \in SocketMarks :
       (tasks[t].pc = "updateMany" /\ tasks'[t].pc = "updated") =>
         /\ log' = log
         /\ Len(messages') = Len(messages)
         /\ tasks'[t].res =
              Cardinality({i \in 1..Len(messages) :
                             messages'[i].isRead /\ ~messages[i].isRead})
         /\ \A i \in 1..Len(messages) :
              messages'[i].isRead <=>
                (messages[i].isRead \/ i \in Pending(tasks[t].fromUserId, tasks[t].user))
  /\ \A j \in NewLogIds :
       log'[j].ev \in {"messages_read", "messages_marked_read"} =>
         LET t == log'[j].task IN
           /\ t \in SocketMarks
           /\ tasks[t].pc = "updated" /\ tasks[t].seen # Absent
           /\ messages' = messages
           /\ Len(log') = Len(log) + 2
           /\ log'[Len(log) + 1].ev = "messages_read"
           /\ log'[Len(log) + 2].ev = "messages_marked_read"
           /\ log'[j].ev = "messages_read" =>
                /\ log'[j].room = UserRoom(tasks[t].fromUserId)
                /\ log'[j].to = 0
                /\ log'[j].payload = [readBy |-> tasks[t].user, count |-> tasks[t].res]
                /\ log'[j].rcpt = ConnectionsOf(tasks[t].fromUserId)
           /\ log'[j].ev = "messages_marked_read" =>
                /\ log'[j].to = tasks[t].conn
                /\ log'[j].room = NoRoom
                /\ log'[j].payload = [count |-> tasks[t].res]
                /\ log'[j].rcpt = {c \in {tasks[t].conn} : status[c] = "connected"}

\* C19, state part: a mark_messages_read emits nothing before it resumes;
\* finished after a successful update it has emitted exactly the two
\* receipts; finished after a failed update it has emitted neither, only
\* "error" to the calling socket.
C19_ReceiptsOrError ==
  \A t \in SocketMarks :
    /\ ~Done(t) => EmitsOf(t) = <<>>
    /\ (Done(t) /\ tasks[t].failedAt = "") =>
         EventsOf(t) = <<"messages_read", "messages_marked_read">>
    /\ (Done(t) /\ tasks[t].failedAt # "") =>
         /\ EventsOf(t) = <<"error">>
         /\ EmitsOf(t)[1].to = tasks[t].conn
         /\ EmitsOf(t)[1].rcpt \subseteq {tasks[t].conn}

\* C19: a successful mark_messages_read(fromUserId) emits messages_read
\* (readBy = caller, count = rows flipped) to the personal room of
\* fromUserId, so that every connection of that user receives it, and
\* messages_marked_read with the same count to the calling connection only;
\* both after the bulk update, and neither when the update fails.
C19_ReadReceipts ==
  []C19_ReceiptsOrError /\ [][C19_ReceiptStep]_vars

\* C19 witness: user 2 marked one message of user 1 as read; the socket of
\* user 1 received messages_read and the calling socket alone received
\* messages_marked_read.
C19_Witness ==
  \E t \in SocketMarks :
    /\ Done(t) /\ tasks[t].out = "marked" /\ tasks[t].res = 1
    /\ tasks[t].fromUserId # tasks[t].user
    /\ EmitsOf(t)[1].rcpt # {} /\ tasks[t].conn \notin EmitsOf(t)[1].rcpt
    /\ EmitsOf(t)[2].rcpt = {tasks[t].conn}

\* C18, step part: no step removes or renumbers a Message or Notification
\* row, a row that is read stays read, and a row that appears is unread.
C18_ReadStaysRead ==
  /\ Len(messages') >= Len(messages)
  /\ Len(notifications') >= Len(notifications)
  /\ \A i \in 1..Len(messages) :
       /\ messages'[i].id = messages[i].id
       /\ messages[i].isRead => messages'[i].isRead
  /\ \A i \in 1..Len(notifications) :
       /\ notifications'[i].id = notifications[i].id
       /\ notifications[i].read => notifications'[i].read
  /\ \A i \in (Len(messages) + 1)..Len(messages') : ~messages'[i].isRead
  /\ \A i \in (Len(notifications) + 1)..Len(notifications') : ~notifications'[i].read

\* C18: the read flag of every Message and every Notification is monotone:
\* once true it is true in every later state, under any sequence and
\* interleaving of send_message, mark_messages_read, createNotification,
\* markNotificationAsRead and markAllNotificationsAsRead; rows are created
\* unread.
C18_ReadFlagMonotone == [][C18_ReadStaysRead]_vars

\* C18 witness: a message and a notification were marked read, a
\* notification created afterwards is unread, and the handlers that ran
\* have all finished.
C18_Witness ==
  /\ \E i \in 1..Len(messages) : messages[i].isRead
  /\ Len(notifications) = 2
  /\ notifications[1].read /\ ~notifications[2].read
  /\ Len(tasks) = 3 /\ \A t \in TaskIds : Done(t)

\* the new_message emissions among the log entries added by this step that
\* were delivered to socket c
NewMessagesTo(c) ==
  {j \in NewLogIds : log'[j].ev = "new_message" /\ c \in log'[j].rcpt}

\* C20, state part: the rooms of a connected socket are its personal room
\* and the conversation rooms it handled join_conversation for, whether it
\* handled the event for a room once or several times; a socket that is not
\* connected has joined nothing; and no send_message has more than one
\* new_message emission.
C20_RoomsOfJoins ==
  /\ \A c \in Conns :
       IF status[c] = "connected"
         THEN rooms[c] = {UserRoom(userId[c])} \cup BagToSet(joins[c])
         ELSE joins[c] = EmptyBag
  /\ \A t \in SocketSends :
       Cardinality({j \in LogIds : log[j].task = t /\ log[j].ev = "new_message"}) <= 1

\* the rooms for which socket c handles a join_conversation in this step
JoinedNow(c) ==
  {r \in BagToSet(joins'[c]) : CopiesIn(r, joins'[c]) > CopiesIn(r, joins[c])}

\* C20, step part (join): the first join_conversation of a socket for a room
\* adds that room to its set; a further one, handled while the socket is in
\* the room, leaves the rooms of every socket as they are; neither emits
\* anything, stores anything or touches another socket.
C20_RepeatedJoin ==
  \A c \in Conns : \A r \in JoinedNow(c) :
    /\ rooms'[c] = rooms[c] \cup {r}
    /\ CopiesIn(r, joins[c]) >= 1 => (r \in rooms[c] /\ rooms' = rooms)
    /\ \A d \in Conns \ {c} : rooms'[d] = rooms[d] /\ joins'[d] = joins[d]
    /\ UNCHANGED <<status, userId, storeVars, tasks, log>>

\* C20, step part (delivery): when a send_message emits new_message for a
\* room, every socket that has that room in its set, however often it
\* joined, is written exactly one packet of it, and no other socket is
\* written any.
C20_DeliveredOnce ==
  \A j \in NewLogIds :
    log'[j].ev = "new_message" =>
      \A c \in Conns :
        IF log'[j].room \in rooms[c]
          THEN /\ CopiesIn(c, log'[j].packets) = 1
               /\ Cardinality(NewMessagesTo(c)) = 1
          ELSE /\ CopiesIn(c, log'[j].packets) = 0
               /\ NewMessagesTo(c) = {}

C20_Step == C20_RepeatedJoin /\ C20_DeliveredOnce

\* C20: join_conversation is idempotent: after a connection joins the same
\* conversation room two or more times its set of rooms equals the set
\* after one join, and each later new_message for that room is delivered to
\* that connection exactly once.
C20_JoinIdempotent ==
  []C20_RoomsOfJoins /\ [][C20_Step]_vars

\* C20 witness: a socket of the receiver handled join_conversation twice
\* for the conversation room, its rooms are the personal room and that one
\* room, and it was written one packet of the new_message of a finished
\* send_message of the other party.
C20_Witness ==
  \E t \in SocketSends : \E c \in Conns :
    LET r == ConversationRoom(tasks[t].receiverId, tasks[t].user) IN
      /\ Done(t) /\ tasks[t].out = "sent"
      /\ c # tasks[t].conn /\ status[c] = "connected"
      /\ userId[c] = tasks[t].receiverId
      /\ CopiesIn(r, joins[c]) = 2
      /\ rooms[c] = {UserRoom(userId[c]), r}
      /\ EmitsOf(t)[1].ev = "new_message" /\ EmitsOf(t)[1].room = r
      /\ CopiesIn(c, EmitsOf(t)[1].packets) = 1

(***************************************************************************)
(* The room key over a wider directory.  Every connection is an            *)
(* authenticated socket of some user with an id in KeyIds (one- and        *)
(* two-digit ids, so that the string order of sort() differs from the      *)
(* numeric order); the sockets join and leave the conversations with the   *)
(* users present and disconnect.                                           *)
(***************************************************************************)
KeyIds == 1..MaxKeyId

InitKey ==
  /\ status = [c \in Conns |-> "connected"]
  /\ userId \in [Conns -> KeyIds]
  /\ handshake = [c \in Conns |-> SignedToken(userId[c])]
  /\ authErr = [c \in Conns |-> NoErr]
  /\ rooms = [c \in Conns |-> RoomsOnConnection(userId[c])]
  /\ joins = [c \in Conns |-> EmptyBag]
  /\ presence = [c \in Conns |-> [online |-> 1, offline |-> 0]]
  /\ messages = <<>>
  /\ notifications = <<>>
  /\ settings = [u \in Users |-> NoSettings]
  /\ queue = <<>>
  /\ tasks = <<>>
  /\ log = <<>>
  /\ io = TRUE

NextKey ==
  \/ \E c \in Conns : Disconnect(c)
  \/ \E c \in Conns, d \in Conns : JoinConversation(c, userId[d])
  \/ \E c \in Conns, d \in Conns : LeaveConversation(c, userId[d])

SpecKey == InitKey /\ [][NextKey]_vars

\* C21: the room key of a pair of user ids does not depend on the order of
\* the pair, two pairs have the same key exactly when they are the same
\* pair, and no key of a pair is the personal room user_<id> of any user.
C21_RoomKeyCanonical ==
  \A c \in Conns, d \in Conns :
    LET a == userId[c]
        b == userId[d] IN
      /\ ConversationRoom(a, b) = ConversationRoom(b, a)
      /\ \A x \in KeyIds, y \in KeyIds :
           (ConversationRoom(a, b) = ConversationRoom(x, y)) <=> ({a, b} = {x, y})
      /\ \A u \in KeyIds : ConversationRoom(a, b) # UserRoom(u)
      /\ \A r \in rooms[c] \cap rooms[d] :
           (r # UserRoom(a) /\ c # d /\ a # b) => r = ConversationRoom(b, a)

\* users 9 and 10 (string order "10" < "9") each joined the conversation
\* with the other and are in one and the same room, "10_9"
C21_Witness ==
  \E c \in Conns, d \in Conns :
    /\ userId[c] = 9 /\ userId[d] = 10
    /\ ConversationRoom(9, 10) = <<49, 48, 95, 57>>
    /\ ConversationRoom(9, 10) \in rooms[c] \cap rooms[d]
    /\ UserRoom(9) \in rooms[c]

\* the calls of updateUserOnlineStatus(userId, false) a connection in the
\* given status has caused
OfflineUpdatesDue(st) == IF st = "disconnected" THEN 1 ELSE 0

C22_OncePerDisconnect ==
  \A c \in Conns :
    /\ presence[c].offline = OfflineUpdatesDue(status[c])
    /\ presence[c].online = (IF status[c] \in {"connected", "disconnected"} THEN 1 ELSE 0)

C22_DisconnectStep ==
  \A c \in Conns :
    (status[c] = "connected" /\ status'[c] # "connected")
      => /\ status'[c] = "disconnected"
         /\ presence'[c].offline = presence[c].offline + 1
         /\ \A d \in Conns \ {c} : presence'[d] = presence[d]

\* C22: for every authenticated connection the last-seen update of the
\* disconnect runs exactly once: none while the socket is connected, one in
\* the step that disconnects it, and none afterwards, although two
\* disconnect listeners are registered.
C22_PresenceUpdatedOnce == []C22_OncePerDisconnect /\ [][C22_DisconnectStep]_vars

\* a socket that sent a message and then disconnected, with its one update
C22_Witness ==
  \E c \in Conns :
    /\ status[c] = "disconnected"
    /\ presence[c] = [online |-> 1, offline |-> 1]
    /\ \E t \in TaskIds : tasks[t].conn = c /\ tasks[t].kind = "send_message"

(***************************************************************************)
(* typing_start and typing_stop.  Both handlers are synchronous: they      *)
(* build the room key and relay one event with authSocket.to(room), which  *)
(* reaches the sockets of the room except the emitting one.                *)
(***************************************************************************)
\* mutant: io.to(room) in place of authSocket.to(room), the sender included
ToOthers_WholeRoom(t, ev, c, room, payload) ==
  Delivered(t, ev, room, 0, Broadcast(room, {}), payload)

\* authSocket.to(room).emit(ev, payload)
ToOthers(t, ev, c, room, payload) ==
  Delivered(t, ev, room, 0, Broadcast(room, {c}), payload)

\* payload of user_typing and of user_stopped_typing
TypingPayload(u) == [userId |-> u]

\* the record of a typing handler, which finishes in the step it starts
TypingTask(kind, c, receiverId) ==
  Task(kind, c, userId[c], "done", NoContent, receiverId, Absent, "relayed")

\* authSocket.on("typing_start")
TypingStart(c, receiverId) ==
  /\ status[c] = "connected"
  /\ Len(tasks) < MaxRoomTasks
  /\ tasks' = Append(tasks, TypingTask("typing_start", c, receiverId))
  /\ log' = Append(log, ToOthers(Len(tasks) + 1, "user_typing", c,
                                 ConversationRoom(userId[c], receiverId),
                                 TypingPayload(userId[c])))
  /\ UNCHANGED <<connVars, storeVars, io>>

\* authSocket.on("typing_stop")
TypingStop(c, receiverId) ==
  /\ status[c] = "connected"
  /\ Len(tasks) < MaxRoomTasks
  /\ tasks' = Append(tasks, TypingTask("typing_stop", c, receiverId))
  /\ log' = Append(log, ToOthers(Len(tasks) + 1, "user_stopped_typing", c,
                                 ConversationRoom(userId[c], receiverId),
                                 TypingPayload(userId[c])))
  /\ UNCHANGED <<connVars, storeVars, io>>

(***************************************************************************)
(* Conversation rooms: the sockets of users 1 and 2 connect, join and      *)
(* leave conversations with users 1, 2 and 3, relay typing events, send    *)
(* messages to them, and disconnect.                                       *)
(***************************************************************************)
RoomPeers == {1, 2, 3}
\* the peers whose conversation socket c is not in: a client of this
\* specification joins a conversation it has open once
NewPeers(c) ==
  IF status[c] = "connected"
    THEN {o \in RoomPeers : ConversationRoom(userId[c], o) \notin rooms[c]}
    ELSE {}
\* "a"
RoomContents == {Str(<<97>>)}

NextRooms ==
  \/ \E c \in Conns, tok \in SockTokens : Connect(c, tok)
  \/ \E c \in Conns : AuthLookup(c, FALSE)
  \/ \E c \in Conns : Disconnect(c)
  \/ \E c \in Conns : \E o \in NewPeers(c) : JoinConversation(c, o)
  \/ \E c \in Conns, o \in RoomPeers : LeaveConversation(c, o)
  \/ \E c \in Conns, r \in RoomPeers : TypingStart(c, r)
  \/ \E c \in Conns, r \in RoomPeers : TypingStop(c, r)
  \/ \E c \in Conns, content \in RoomContents, r \in RoomPeers :
       SendMessage(c, content, r, Absent)
  \/ \E t \in 1..MaxTasks : SendReceiverLookup(t, FALSE)
  \/ \E t \in 1..MaxTasks, ok \in BOOLEAN : StoreCreateMessage(t, ok)
  \/ \E t \in 1..MaxTasks : SendResume(t)

SpecRooms == Init /\ [][NextRooms]_vars

TypingKinds == {"typing_start", "typing_stop"}
TypingOps == {t \in TaskIds : tasks[t].kind \in TypingKinds}
NewTaskIds == (Len(tasks) + 1)..Len(tasks')
\* the connected sockets that are in the conversation room of users a and b
InConversation(a, b) ==
  {d \in Conns : status[d] = "connected" /\ ConversationRoom(a, b) \in rooms[d]}

\* C24, step part: a typing event from socket c of user s naming receiver r
\* makes one emission, user_typing for typing_start and user_stopped_typing
\* for typing_stop, delivered to exactly the sockets that are in the room of
\* {s, r} at that moment other than c; no stored row and no connection
\* changes.
C24_TypingStep ==
  \A t \in NewTaskIds :
    tasks'[t].kind \in TypingKinds =>
      LET c == tasks'[t].conn
          e == log'[Len(log')]
      IN /\ Len(log') = Len(log) + 1
         /\ tasks'[t].user = userId[c]
         /\ e.task = t
         /\ e.ev = (IF tasks'[t].kind = "typing_start"
                      THEN "user_typing" ELSE "user_stopped_typing")
         /\ e.rcpt = InConversation(tasks'[t].user, tasks'[t].receiverId) \ {c}
         /\ e.payload.userId = tasks'[t].user
         /\ storeVars' = storeVars
         /\ connVars' = connVars

\* C24, state part: a typing handler never emits anything else (no echo, no
\* acknowledgement, no error), and its sender is not among the receivers.
C24_NoEcho ==
  \A t \in TypingOps :
    /\ Len(EmitsOf(t)) = 1
    /\ EmitsOf(t)[1].to = 0
    /\ tasks[t].conn \notin EmitsOf(t)[1].rcpt
    /\ Done(t)

\* C24: typing_start / typing_stop relay user_typing / user_stopped_typing to
\* exactly the other sockets of the canonical room of sender and receiver;
\* the sender receives nothing and nothing persisted changes.
C24_TypingRelay == []C24_NoEcho /\ [][C24_TypingStep]_vars

\* user 1 and user 2 are both in their room; a typing event of one of them
\* reached the other socket and not the sender's
C24_Witness ==
  \E j \in LogIds :
    LET t == log[j].task
        c == tasks[t].conn IN
      /\ log[j].ev = "user_typing"
      /\ c \in InConversation(tasks[t].user, tasks[t].receiverId)
      /\ log[j].rcpt = InConversation(tasks[t].user, tasks[t].receiverId) \ {c}
      /\ log[j].rcpt # {}
      /\ \E k \in LogIds : log[k].ev = "user_stopped_typing" /\ log[k].rcpt = log[j].rcpt

(***************************************************************************)
(* Closing sockets under all the room events.  Every socket is connected,  *)
(* the first for user 1 and each other one for user 1 or user 2.  From     *)
(* there the sockets join the conversation of users 1 and 2 and disconnect *)
(* at any moment, while connected sockets send messages, relay typing      *)
(* events and mark messages as read and createNotificationService is       *)
(* called for user 1.                                                      *)
(***************************************************************************)
ClosedPeers == {1, 2}
\* the other party of the conversation of users 1 and 2
OtherParty(u) == IF u = 1 THEN 2 ELSE 1

InitOpen ==
  /\ status = [c \in Conns |-> "connected"]
  /\ userId \in [Conns -> ClosedPeers]
  /\ userId[1] = 1
  /\ handshake = [c \in Conns |-> SignedToken(userId[c])]
  /\ authErr = [c \in Conns |-> NoErr]
  /\ rooms = [c \in Conns |-> RoomsOnConnection(userId[c])]
  /\ joins = [c \in Conns |-> EmptyBag]
  /\ presence = [c \in Conns |-> [online |-> 1, offline |-> 0]]
  /\ messages = <<>>
  /\ notifications = <<>>
  /\ settings = [u \in Users |-> NoSettings]
  /\ queue = <<>>
  /\ tasks = <<>>
  /\ log = <<>>
  /\ io = TRUE

NextClosed ==
  \/ \E c \in Conns : Disconnect(c)
  \/ \E c \in Conns : \E o \in {OtherParty(userId[c])} \cap NewPeers(c) :
       JoinConversation(c, o)
  \/ \E c \in Conns, r \in ClosedPeers : TypingStart(c, r)
  \/ \E c \in Conns, content \in RoomContents, r \in ClosedPeers :
       SendMessage(c, content, r, Absent)
  \/ \E t \in 1..MaxReadTasks : SendReceiverLookup(t, FALSE)
  \/ \E t \in 1..MaxReadTasks : StoreCreateMessage(t, TRUE)
  \/ \E t \in 1..MaxReadTasks : SendResume(t)
  \/ \E c \in Conns, f \in ClosedPeers : MarkMessagesRead(c, f)
  \/ \E t \in 1..MaxReadTasks : StoreMarkMessages(t, TRUE)
  \/ \E t \in 1..MaxReadTasks : MarkReadResume(t)
  \/ \E u \in SockOwners, type \in SockTypes : CreateNotification(u, type)
  \/ \E t \in 1..MaxReadTasks : StoreCreateNotification(t, TRUE)
  \/ \E t \in 1..MaxReadTasks : CreateEmitNew(t)
  \/ \E t \in 1..MaxReadTasks : StoreCount(t, TRUE)
  \/ \E t \in 1..MaxReadTasks : CreateEmitCount(t)
  \/ \E t \in 1..MaxReadTasks : CreateFindSettings(t, FALSE)
  \/ \E t \in 1..MaxReadTasks : CreateDefaultSettings(t, FALSE)
  \/ \E t \in 1..MaxReadTasks : CreateEnqueue(t, FALSE)

SpecClosed == InitOpen /\ [][NextClosed]_vars

\* the events the server broadcasts to a room
RoomEvents ==
  {"new_message", "message_notification", "user_typing", "messages_read",
   "new_notification", "notification_count_updated"}

\* C23, state part: a socket that is not connected is in no room.
C23_GoneFromRooms ==
  \A c \in Conns : status[c] # "connected" => rooms[c] = {}

\* C23, step part: no packet of a room event emitted in a step is written
\* to a socket that is not connected; a room event addressed to the
\* personal room of a user is delivered to every connected socket of that
\* user; and the step that disconnects a socket changes the rooms of no
\* other socket.
C23_LaterEmissions ==
  /\ \A j \in NewLogIds :
       log'[j].ev \in RoomEvents =>
         /\ \A c \in Conns :
              status'[c] # "connected" => CopiesIn(c, log'[j].packets) = 0
         /\ \A u \in Users :
              log'[j].room = UserRoom(u) => log'[j].rcpt = ConnectionsOf(u)
  /\ \A c \in Conns :
       (status[c] = "connected" /\ status'[c] = "disconnected")
         => \A d \in Conns \ {c} : rooms'[d] = rooms[d]

\* C23: once a socket has disconnected it is in no room and receives no
\* event emitted afterwards (new_message, message_notification,
\* user_typing, messages_read, new_notification,
\* notification_count_updated), while the other connected sockets of its
\* user go on receiving the events of the personal room.
C23_DisconnectedReceivesNothing == []C23_GoneFromRooms /\ [][C23_LaterEmissions]_vars

\* two sockets of one user received new_notification; one of them then
\* disconnected, and the notification_count_updated and the messages_read
\* emitted afterwards to the personal room reached the other one only
C23_Witness ==
  \E j \in LogIds, k \in LogIds, m \in LogIds, c \in Conns, d \in Conns :
    /\ j < k /\ k < m /\ c # d
    /\ status[c] = "disconnected" /\ rooms[c] = {}
    /\ status[d] = "connected"
    /\ log[j].ev = "new_notification" /\ log[k].ev = "notification_count_updated"
    /\ log[m].ev = "messages_read"
    /\ log[j].room = UserRoom(userId[c]) /\ log[k].room = log[j].room
    /\ log[m].room = log[j].room
    /\ log[j].rcpt = {c, d}
    /\ log[k].rcpt = {d}
    /\ log[m].rcpt = {d}

\* the emissions of message_notification by handler t that socket d received
NotificationsTo(t, d) ==
  {j \in LogIds : /\ log[j].task = t
                  /\ log[j].ev = "message_notification"
                  /\ d \in log[j].rcpt}

\* C25, step part: in the step in which a send_message handler resumes after
\* its row was stored, every connected socket of the receiver gets
\* message_notification exactly once and no other socket gets it, whatever
\* conversation rooms the sockets are in.
C25_NotifyStep ==
  \A t \in TaskIds :
    (tasks[t].kind = "send_message" /\ tasks[t].pc = "created" /\ tasks'[t].pc = "done")
      => \A d \in Conns :
           Cardinality({j \in NewLogIds : /\ log'[j].ev = "message_notification"
                                          /\ d \in log'[j].rcpt})
             = (IF d \in ConnectionsOf(tasks[t].receiverId) THEN 1 ELSE 0)

\* C25, state part: no socket ever holds two message_notification events of
\* one send_message, and a send that stored no row notified nobody.
C25_AtMostOnce ==
  \A t \in SocketSends, d \in Conns :
    /\ Cardinality(NotificationsTo(t, d)) <= 1
    /\ RowsOf(t) = {} => NotificationsTo(t, d) = {}

\* C25: for each stored message every live socket of the receiver receives
\* message_notification exactly once, joined to the conversation room or
\* not, although both connection listeners join the personal room.
C25_NotifiedOncePerConnection == []C25_AtMostOnce /\ [][C25_NotifyStep]_vars

\* a receiver socket that was not in the conversation room got the
\* notification of a message and not its new_message
C25_Witness ==
  \E t \in SocketSends, d \in Conns :
    /\ status[d] = "connected"
    /\ userId[d] = tasks[t].receiverId
    /\ Cardinality(NotificationsTo(t, d)) = 1
    /\ \E j \in LogIds : log[j].task = t /\ log[j].ev = "new_message" /\ d \notin log[j].rcpt

(***************************************************************************)
(* Ordering of the events of one socket.  The socket of user 1 has issued  *)
(* MaxQueued send_message events to user 2, one after the other; each      *)
(* handler ran its synchronous part up to the first await and is suspended *)
(* on the receiver lookup.  From there the persistence calls of the        *)
(* handlers return in any order, as Prisma runs them on a connection pool  *)
(* and nothing in the handler serialises them.                             *)
(***************************************************************************)
\* the content of the i-th event: i letters
QueuedContent(i) == Str([k \in 1..i |-> 97])

InitQueued ==
  /\ status = [c \in Conns |-> "connected"]
  /\ handshake = [c \in Conns |-> SignedToken(LiveUser(c))]
  /\ authErr = [c \in Conns |-> NoErr]
  /\ userId = [c \in Conns |-> LiveUser(c)]
  /\ rooms = [c \in Conns |-> RoomsOnConnection(LiveUser(c))]
  /\ joins = [c \in Conns |-> EmptyBag]
  /\ presence = [c \in Conns |-> [online |-> 1, offline |-> 0]]
  /\ messages = <<>>
  /\ notifications = <<>>
  /\ settings = [u \in Users |-> NoSettings]
  /\ queue = <<>>
  /\ tasks = [i \in 1..MaxQueued |->
                Task("send_message", 1, 1, "findReceiver", QueuedContent(i), 2, Absent, "")]
  /\ log = <<>>
  /\ io = TRUE

NextQueued ==
  \/ \E c \in Conns : Disconnect(c)
  \/ \E c \in Conns, o \in PeerIds : JoinConversation(c, o)
  \/ \E c \in Conns, o \in PeerIds : LeaveConversation(c, o)
  \/ \E t \in 1..MaxQueued : SendReceiverLookup(t, FALSE)
  \/ \E t \in 1..MaxQueued, ok \in BOOLEAN : StoreCreateMessage(t, ok)
  \/ \E t \in 1..MaxQueued : SendResume(t)

SpecQueued == InitQueued /\ [][NextQueued]_vars

\* the position in the log of the new_message broadcast of handler t, 0 if
\* there is none
BroadcastAt(t) ==
  IF \E j \in LogIds : log[j].task = t /\ log[j].ev = "new_message"
    THEN CHOOSE j \in LogIds : log[j].task = t /\ log[j].ev = "new_message"
    ELSE 0
\* the row handler t stored, 0 if there is none
RowAt(t) == IF RowsOf(t) = {} THEN 0 ELSE CHOOSE i \in RowsOf(t) : TRUE

\* C26: when one socket issued send_message m1 and then m2, both valid, and
\* both are stored, m1 is stored before m2 (lower row position and lower
\* id), and when both are broadcast the new_message of m1 comes before the
\* new_message of m2.
C26_SendsInOrder ==
  \A t1 \in SocketSends, t2 \in SocketSends :
    (t1 < t2 /\ tasks[t1].conn = tasks[t2].conn /\ ValidSend(t1) /\ ValidSend(t2))
      => /\ (RowAt(t1) # 0 /\ RowAt(t2) # 0)
              => (RowAt(t1) < RowAt(t2) /\ messages[RowAt(t1)].id < messages[RowAt(t2)].id)
         /\ (BroadcastAt(t1) # 0 /\ BroadcastAt(t2) # 0)
              => BroadcastAt(t1) < BroadcastAt(t2)

ConversationEvents == {"new_message", "user_typing", "user_stopped_typing"}

\* C27, state part: whatever a socket has joined and left, every
\* conversation room it is in belongs to a pair that contains its own user.
C27_OwnRoomsOnly ==
  \A c \in Conns :
    status[c] = "connected" =>
      \A s \in Users, r \in Users :
        ConversationRoom(s, r) \in rooms[c] => userId[c] \in {s, r}

\* C27, step part: new_message, user_typing and user_stopped_typing of a
\* handler of user s naming receiver r are delivered only to sockets of s
\* or of r.
C27_DeliveredToParties ==
  \A j \in NewLogIds :
    log'[j].ev \in ConversationEvents =>
      \A d \in log'[j].rcpt :
        userId[d] \in {tasks'[log'[j].task].user, tasks'[log'[j].task].receiverId}

\* C27: conversation isolation.  A socket receives the conversation events
\* of users s and r only if it belongs to s or r, and no sequence of
\* join_conversation / leave_conversation puts a socket into the room of a
\* pair without its own user.
C27_ConversationIsolation == []C27_OwnRoomsOnly /\ [][C27_DeliveredToParties]_vars

\* user 1 sent a message to user 3 and its joined socket received the
\* broadcast; the socket of user 2, which joined the conversations with
\* both 1 and 3, did not
C27_Witness ==
  \E j \in LogIds, c \in Conns, d \in Conns :
    /\ log[j].ev = "new_message"
    /\ tasks[log[j].task].user = 1 /\ tasks[log[j].task].receiverId = 3
    /\ log[j].rcpt = {c}
    /\ status[d] = "connected" /\ userId[d] = 2
    /\ {ConversationRoom(2, 1), ConversationRoom(2, 3)} \subseteq rooms[d]
    /\ \E k \in LogIds : log[k].ev = "user_typing" /\ tasks[log[k].task].user = 2
                          /\ tasks[log[k].task].receiverId = 1

\* the sender's socket of handler t is gone
SenderGone(t) == status[tasks[t].conn] = "disconnected"

\* C28, state part: a send_message handler that is suspended can always take
\* its next step, whether its socket is still connected or not, and a stored
\* message whose handler has passed the create has its new_message and
\* message_notification in the log.
C28_RunsToCompletion ==
  \A t \in SocketSends :
    /\ Running(t) =>
         ENABLED (\/ \E dbThrows \in BOOLEAN : SendReceiverLookup(t, dbThrows)
                  \/ \E ok \in BOOLEAN : StoreCreateMessage(t, ok)
                  \/ SendResume(t))
    /\ (RowsOf(t) # {} /\ tasks[t].pc # "created")
         => /\ Done(t)
            /\ EventsOf(t) = <<"new_message", "message_notification", "message_sent">>

\* C28, step part: the step that disconnects a socket leaves its handlers,
\* the store and the log as they are; and when a handler resumes after its
\* row was stored, the room and the receiver's sockets get their events as
\* if the sender were connected, and only message_sent reaches nobody when
\* the sender is gone.
C28_DisconnectDuringSend ==
  /\ \A c \in Conns :
       (status[c] = "connected" /\ status'[c] = "disconnected")
         => tasks' = tasks /\ log' = log /\ storeVars' = storeVars
  /\ \A t \in TaskIds :
       (tasks[t].kind = "send_message" /\ tasks[t].pc = "created" /\ tasks'[t].pc = "done")
         => /\ Len(log') = Len(log) + 3
            /\ log'[Len(log) + 1].ev = "new_message"
            /\ log'[Len(log) + 1].rcpt
                 = InConversation(tasks[t].user, tasks[t].receiverId)
            /\ log'[Len(log) + 2].ev = "message_notification"
            /\ log'[Len(log) + 2].rcpt = ConnectionsOf(tasks[t].receiverId)
            /\ log'[Len(log) + 3].ev = "message_sent"
            /\ log'[Len(log) + 3].rcpt = (IF SenderGone(t) THEN {} ELSE {tasks[t].conn})

\* C28: a sender that disconnects while its send_message handler is
\* suspended does not stop the handler; the stored message is broadcast to
\* the room and notified to the receiver, and only the acknowledgement is
\* lost.
C28_SenderDisconnects == []C28_RunsToCompletion /\ [][C28_DisconnectDuringSend]_vars

\* the sender is gone, the message is stored, the joined receiver got
\* new_message and message_notification, and message_sent reached nobody
C28_Witness ==
  \E t \in SocketSends :
    /\ SenderGone(t) /\ Done(t) /\ RowsOf(t) # {}
    /\ Len(EmitsOf(t)) = 3
    /\ EmitsOf(t)[1].rcpt # {} /\ EmitsOf(t)[1].rcpt = EmitsOf(t)[2].rcpt
    /\ EmitsOf(t)[3].ev = "message_sent" /\ EmitsOf(t)[3].rcpt = {}

\* socket c is in a room fewer after the step, and still connected
LeftSomeRoom(c) ==
  /\ status[c] = "connected" /\ status'[c] = "connected"
  /\ rooms'[c] # rooms[c]
  /\ rooms'[c] \subseteq rooms[c]

\* C29, state part: a connected socket is always in its personal room.
C29_KeepsPersonalRoom ==
  \A c \in Conns : status[c] = "connected" => UserRoom(userId[c]) \in rooms[c]

\* C29, step part: a step in which a connected socket leaves anything takes
\* it out of exactly one conversation room of its own user, which it was in,
\* and changes nothing else; and in every emitting step the conversation
\* events go only to sockets that are in the conversation room at that
\* moment, while message_notification goes to every connected socket of the
\* receiver.
C29_LeaveStep ==
  /\ \A c \in Conns :
       LeftSomeRoom(c) =>
         /\ \E o \in RoomPeers :
              /\ ConversationRoom(userId[c], o) \in rooms[c]
              /\ rooms'[c] = rooms[c] \ {ConversationRoom(userId[c], o)}
         /\ UserRoom(userId[c]) \in rooms'[c]
         /\ \A d \in Conns \ {c} : rooms'[d] = rooms[d]
         /\ UNCHANGED <<status, handshake, authErr, userId, presence, storeVars, tasks, log, io>>
  /\ \A j \in NewLogIds :
       /\ log'[j].ev \in ConversationEvents
            => \A d \in log'[j].rcpt : log'[j].room \in rooms[d]
       /\ log'[j].ev = "message_notification"
            => log'[j].rcpt = ConnectionsOf(tasks'[log'[j].task].receiverId)

\* C29: after leave_conversation a socket gets no new_message and no typing
\* event of that room, keeps its personal room and still gets
\* message_notification; leaving a room it is not in changes nothing.
C29_LeaveFrame == []C29_KeepsPersonalRoom /\ [][C29_LeaveStep]_vars

\* a socket received user_typing in a room, left the room, and then did not
\* receive the new_message of that room but did receive message_notification
C29_Witness ==
  \E d \in Conns, j \in LogIds, k \in LogIds, m \in LogIds :
    /\ j < k /\ k < m
    /\ status[d] = "connected"
    /\ log[j].ev = "user_typing" /\ d \in log[j].rcpt
    /\ log[k].ev = "new_message" /\ log[k].room = log[j].room /\ d \notin log[k].rcpt
    /\ log[m].ev = "message_notification" /\ d \in log[m].rcpt
    /\ log[j].room \notin rooms[d]

(***************************************************************************)
(* mark_messages_read over a populated store.  Users 1 and 2 are           *)
(* connected; messages in both directions between them and messages        *)
(* exchanged with user 3 are stored, one of them already read, and user 2  *)
(* has an unread notification.  The sockets send mark_messages_read for    *)
(* any user and disconnect, while the message service stores one more      *)
(* message of user 1 (sendMessage) and deleteMessage is called for a       *)
(* stored message, for the new one, by its sender and by another user.     *)
(***************************************************************************)
StoredMessage(i, s, r, read) ==
  [id |-> i, content |-> <<97>>, senderId |-> s, receiverId |-> r,
   listingId |-> Absent, isRead |-> read, task |-> 0]

InitMarked ==
  /\ status = [c \in Conns |-> "connected"]
  /\ handshake = [c \in Conns |-> SignedToken(LiveUser(c))]
  /\ authErr = [c \in Conns |-> NoErr]
  /\ userId = [c \in Conns |-> LiveUser(c)]
  /\ rooms = [c \in Conns |-> RoomsOnConnection(LiveUser(c))]
  /\ joins = [c \in Conns |-> EmptyBag]
  /\ presence = [c \in Conns |-> [online |-> 1, offline |-> 0]]
  /\ messages = << StoredMessage(1, 1, 2, FALSE), StoredMessage(2, 2, 1, FALSE),
                   StoredMessage(3, 3, 2, FALSE), StoredMessage(4, 1, 3, FALSE),
                   StoredMessage(5, 1, 2, TRUE) >>
  /\ notifications = <<[id |-> 1, userId |-> 2, type |-> "NEW_MESSAGE",
                        read |-> FALSE, task |-> 0]>>
  /\ settings = [u \in Users |-> NoSettings]
  /\ queue = <<>>
  /\ tasks = <<>>
  /\ log = <<>>
  /\ io = TRUE

\* a stored message of user 1, and the id the next created row gets
DeleteIds == {1, 6}
DeleteUsers == {1, 2}

NextMarked ==
  \/ \E c \in Conns : Disconnect(c)
  \/ \E c \in Conns, f \in Users : MarkMessagesRead(c, f)
  \/ \E t \in 1..MaxReadTasks, ok \in BOOLEAN : StoreMarkMessages(t, ok)
  \/ \E t \in 1..MaxReadTasks : MarkReadResume(t)
  \/ \E content \in RoomContents : RestSendMessage(1, content, 2, Absent)
  \/ \E t \in 1..MaxReadTasks : RestReceiverLookup(t, FALSE)
  \/ \E t \in 1..MaxReadTasks, ok \in BOOLEAN : StoreCreateMessage(t, ok)
  \/ \E t \in 1..MaxReadTasks : RestSendResume(t)
  \/ \E id \in DeleteIds, u \in DeleteUsers : DeleteMessage(id, u)
  \/ \E t \in 1..MaxReadTasks, dbThrows \in BOOLEAN : DeleteFind(t, dbThrows)
  \/ \E t \in 1..MaxReadTasks, ok \in BOOLEAN : StoreDeleteMessage(t, ok)

SpecMarked == InitMarked /\ [][NextMarked]_vars

\* row i is the same before and after the step but for its read flag
SameButRead(i) == [messages'[i] EXCEPT !.isRead = messages[i].isRead] = messages[i]

\* C30, step form: every step of a mark_messages_read handler of user u for fromUserId
\* (its start, its bulk update, its resumption) keeps the number of Message
\* rows, changes nothing of a row but the read flag, sets that flag only
\* (to true) on rows sent by fromUserId to u, and leaves the Notification
\* rows, the settings and the email queue as they are.
C30_MarkStep ==
  /\ \A t \in NewTaskIds :
       tasks'[t].kind = "mark_messages_read" => storeVars' = storeVars
  /\ \A t \in TaskIds :
       (tasks[t].kind = "mark_messages_read" /\ tasks'[t] # tasks[t])
         => /\ Len(messages') = Len(messages)
            /\ \A i \in 1..Len(messages) :
                 /\ SameButRead(i)
                 /\ messages'[i].isRead # messages[i].isRead
                      => /\ messages[i].senderId = tasks[t].fromUserId
                         /\ messages[i].receiverId = tasks[t].user
                         /\ messages'[i].isRead
            /\ notifications' = notifications
            /\ settings' = settings
            /\ queue' = queue

\* C30: mark_messages_read changes only the read flag of the messages sent
\* by fromUserId to the caller; every other row, every content, every
\* Notification row stays as it is and no row is created or deleted.
C30_MarkChangesOnlyReadFlag == [][C30_MarkStep]_vars

\* user 2 marked the messages from user 1: that row is read now, while the
\* message from 2 to 1, the messages exchanged with user 3 and the
\* notification of user 2 are still unread
C30_Witness ==
  \E t \in TaskIds :
    /\ tasks[t].kind = "mark_messages_read" /\ Done(t)
    /\ tasks[t].user = 2 /\ tasks[t].fromUserId = 1 /\ tasks[t].res = 1
    /\ messages[1].isRead
    /\ ~messages[2].isRead /\ ~messages[3].isRead /\ ~messages[4].isRead
    /\ ~notifications[1].read
    /\ Len(messages) = 5

====
